---------------------------- MODULE Spec2Model ----------------------------
(***************************************************************************)
(* ValutaTrade Hub: wallet ledger, JSON file store, rate query and rate    *)
(* updater, modelled from the Python sources under src/.                   *)
(*                                                                         *)
(* Money amounts and balances are integers (a number of smallest units);   *)
(* rates are exact fractions <<numerator, denominator>>.  Log files        *)
(* written by the logging decorators are not part of the modelled state.   *)
(***************************************************************************)
EXTENDS Integers, Sequences, FiniteSets, TLC

VARIABLES
    wallet,      \* a Wallet object: [currency_code, balance]
    wres,        \* outcome of the last Wallet.deposit / Wallet.withdraw call
    disk,        \* DatabaseManager harness: the store file and its .tmp file
    saver,       \* the thread inside DatabaseManager.save
    loader,      \* the thread inside DatabaseManager.load
    users,       \* data/users.json
    portfolios,  \* data/portfolios.json
    rates,       \* data/rates.json
    history,     \* data/exchange_rates.json (history log)
    session,     \* session_data of the CLI loop (0: not logged in)
    now,         \* wall clock, seconds
    last,        \* outcome of the last use case call
    procs,       \* concurrent invocations: program counter and locals
    cache        \* data/<client>_cache.json of each API client

walletVars == <<wallet, wres>>
dbVars     == <<disk, saver, loader>>
appVars    == <<users, portfolios, rates, history, session, now, last>>
vars       == <<wallet, wres, disk, saver, loader, users, portfolios, rates,
                history, session, now, last, procs, cache>>

(***************************************************************************)
(* Bounds of the model.                                                    *)
(***************************************************************************)
\* cap of the balance of the Wallet object
MaxBalance == 4
\* largest amount passed to a call
MaxAmount == 2
\* number of db.save calls on the store file
MaxSaves == 3
\* cap of the sum of all balances held in portfolios.json
MaxHolding == 2
\* last instant of the clock, in seconds
MaxClock == 301
\* cap of the records in exchange_rates.json
MaxHistory == 2
\* free places left in a history log that is nearly full
MaxHistSlack == 3
\* updates run on a history log that is nearly full
MaxHistUpdates == 3
\* records appended beyond the cap in one call
MaxHistExtra == 5
\* last instant of the clock of the cached fetches, in seconds
MaxCacheClock == 3600
\* The largest balance of a wallet in a valued portfolio.
MaxValueBalance == 2
\* The most updates the scheduler loop starts.
MaxSchedUpdates == 2
\* The most a ledger of the trading session holds, over all wallets.
MaxSessionHolding == 10

(***************************************************************************)
(* Amount arguments: a number, or a value that is not int/float.           *)
(***************************************************************************)
Num(n) == [isnum |-> TRUE, v |-> n]
NotANumber == [isnum |-> FALSE, v |-> 0]
AmountInputs == {Num(n) : n \in -1..MaxAmount} \cup {NotANumber}

(***************************************************************************)
(* core/models.py: Wallet                                                  *)
(***************************************************************************)
Wallet(currency_code, balance) ==
    [currency_code |-> currency_code, balance |-> balance]

\* Result of a Wallet method: the wallet afterwards and the exception raised.
WalletResult(w, err) == [wallet |-> w, err |-> err]

\* balance.setter: rejects non-numbers and negative values.
SetBalance(w, value) ==
    IF ~value.isnum THEN WalletResult(w, "TypeError")
    ELSE IF value.v < 0 THEN WalletResult(w, "InvalidAmountError")
    ELSE WalletResult([w EXCEPT !.balance = value.v], "ok")

Wallet_deposit(w, amount) ==
    IF ~amount.isnum THEN WalletResult(w, "TypeError")
    ELSE IF amount.v <= 0 THEN WalletResult(w, "InvalidAmountError")
    ELSE SetBalance(w, Num(w.balance + amount.v))

\* Wallet.withdraw without the funds check (the setter then rejects the
\* negative value).
Wallet_withdraw_NoFundsCheck(w, amount) ==
    IF ~amount.isnum THEN WalletResult(w, "TypeError")
    ELSE IF amount.v <= 0 THEN WalletResult(w, "InvalidAmountError")
    ELSE SetBalance(w, Num(w.balance - amount.v))

\* Wallet.withdraw refusing to empty the wallet (>= for >).
Wallet_withdraw_Strict(w, amount) ==
    IF ~amount.isnum THEN WalletResult(w, "TypeError")
    ELSE IF amount.v <= 0 THEN WalletResult(w, "InvalidAmountError")
    ELSE IF amount.v >= w.balance THEN WalletResult(w, "InsufficientFundsError")
    ELSE SetBalance(w, Num(w.balance - amount.v))

Wallet_withdraw(w, amount) ==
    IF ~amount.isnum THEN WalletResult(w, "TypeError")
    ELSE IF amount.v <= 0 THEN WalletResult(w, "InvalidAmountError")
    ELSE IF amount.v > w.balance THEN WalletResult(w, "InsufficientFundsError")
    ELSE SetBalance(w, Num(w.balance - amount.v))


(***************************************************************************)
(* infra/database.py: DatabaseManager.load / save on one store file.       *)
(* A file is missing, partial (opened for writing, not yet closed) or      *)
(* complete; v numbers the content (0: none).                              *)
(***************************************************************************)
Missing     == [st |-> "missing",  v |-> 0]
Partial(v)  == [st |-> "partial",  v |-> v]
Complete(v) == [st |-> "complete", v |-> v]

\* What load returns; 0 stands for the empty dict {}.
EmptyDict == 0

\* load, lines 39-40: os.path.exists(path).
PathExists(f) == f.st # "missing"

\* load, lines 42-46: open + json.load; any exception gives {}.
ReadJson(f) == IF f.st = "complete" THEN f.v ELSE EmptyDict

NoSave == [old |-> 0, new |-> 0]

SaverIdle == [pc |-> "idle", data |-> 0, old |-> 0, exists |-> FALSE,
              crash |-> NoSave]
LoaderIdle == [pc |-> "idle", result |-> EmptyDict, mode |-> "quiet",
               ctx |-> NoSave, endctx |-> NoSave]

\* The save in progress, as (content of the file at its start, new content).
SaveInProgress ==
    IF saver.pc = "idle" THEN NoSave ELSE [old |-> saver.old, new |-> saver.data]

\* save, lines 60-62: open(temp_path, 'w') creates or truncates the .tmp file.
SaveOpenTmp ==
    /\ saver.pc = "idle"
    /\ saver.data < MaxSaves
    /\ saver' = [pc |-> "open", data |-> saver.data + 1,
                 old |-> disk.path.v, exists |-> FALSE, crash |-> NoSave]
    /\ disk' = [disk EXCEPT !.tmp = Partial(saver.data + 1)]
    /\ UNCHANGED loader

\* save, line 63 and the end of the with block: json.dump, close.
SaveDump ==
    /\ saver.pc = "open"
    /\ disk' = [disk EXCEPT !.tmp = Complete(saver.data)]
    /\ saver' = [saver EXCEPT !.pc = "written"]
    /\ UNCHANGED loader

\* save, line 66: os.path.exists(path).
SaveCheckExists ==
    /\ saver.pc = "written"
    /\ saver' = [saver EXCEPT !.pc = "checked", !.exists = PathExists(disk.path)]
    /\ UNCHANGED <<disk, loader>>

\* save, line 67: os.remove(path) when the file was found.
SaveRemove ==
    /\ saver.pc = "checked"
    /\ disk' = IF saver.exists THEN [disk EXCEPT !.path = Missing] ELSE disk
    /\ saver' = [saver EXCEPT !.pc = "removed"]
    /\ UNCHANGED loader

\* save, line 68: os.rename(temp_path, path).
SaveRename ==
    /\ saver.pc = "removed"
    /\ disk' = [path |-> disk.tmp, tmp |-> Missing]
    /\ saver' = [saver EXCEPT !.pc = "idle"]
    /\ UNCHANGED loader

\* The process dies inside save; the files stay as they are and the next
\* process starts with no thread inside load or save.
Crash ==
    /\ saver.pc # "idle"
    /\ saver' = [saver EXCEPT !.pc = "idle", !.crash = SaveInProgress]
    /\ loader' = LoaderIdle
    /\ UNCHANGED disk

\* load, lines 37-40.  mode/ctx record what the load runs concurrently with
\* or follows: a save in progress, a save cut by a crash, or neither.
LoadCheckExists ==
    /\ loader.pc \in {"idle", "done"}
    /\ LET mode == IF saver.pc # "idle" THEN "during"
                   ELSE IF saver.crash # NoSave THEN "aftercrash" ELSE "quiet"
           ctx  == IF saver.pc # "idle" THEN SaveInProgress ELSE saver.crash
       IN loader' = IF PathExists(disk.path)
                    THEN [pc |-> "checked", result |-> EmptyDict, mode |-> mode,
                          ctx |-> ctx, endctx |-> NoSave]
                    ELSE [pc |-> "done", result |-> EmptyDict, mode |-> mode,
                          ctx |-> ctx, endctx |-> SaveInProgress]
    /\ UNCHANGED <<disk, saver>>

\* load, lines 42-46.
LoadRead ==
    /\ loader.pc = "checked"
    /\ loader' = [loader EXCEPT !.pc = "done", !.result = ReadJson(disk.path),
                                !.endctx = SaveInProgress]
    /\ UNCHANGED <<disk, saver>>


(***************************************************************************)
(* Values shared by the use cases.                                         *)
(***************************************************************************)
\* A dict with string keys is a function; f[k] = v added or replaced.
EmptyMap == [x \in {} |-> 0]
Put(f, k, v) == [x \in (DOMAIN f) \cup {k} |-> IF x = k THEN v ELSE f[x]]

Min(S) == CHOOSE x \in S : \A y \in S : x <= y
Max(S) == CHOOSE x \in S : \A y \in S : x >= y

\* Rates are exact fractions <<n, d>>, d # 0, kept in lowest terms.
RECURSIVE GCD(_, _)
GCD(a, b) == IF b = 0 THEN a ELSE GCD(b, a % b)
Abs(x) == IF x < 0 THEN -x ELSE x
Norm(r) ==
    LET g == GCD(Abs(r[1]), Abs(r[2]))
        s == IF r[2] < 0 THEN -1 ELSE 1
    IN IF g = 0 THEN r ELSE <<s * (r[1] \div g), s * (r[2] \div g)>>
Frac(n, d)    == Norm(<<n, d>>)
\* The quotient taken the wrong way round.
FracDiv_Swapped(a, b) == Norm(<<b[1] * a[2], b[2] * a[1]>>)
FracDiv(a, b) == Norm(<<a[1] * b[2], a[2] * b[1]>>)      \* a / b, b # 0
FracMul(a, b) == Norm(<<a[1] * b[1], a[2] * b[2]>>)
FracInv(a)    == FracDiv(<<1, 1>>, a)                    \* 1 / a, a # 0
FracOfInt(n)  == <<n, 1>>
IsZero(a)     == a[1] = 0
One           == <<1, 1>>
Zero          == <<0, 1>>

\* A pair key "FROM_TO" is the tuple <<FROM, TO>>.
PairKey(from, to) == <<from, to>>

(***************************************************************************)
(* core/currencies.py: get_currency.  The table is cut to three of its     *)
(* codes; "XXX" stands for any code that is not in it, "eur" for a         *)
(* spelling that str.upper() normalises.                                   *)
(***************************************************************************)
SupportedCodes == {"USD", "EUR", "BTC"}
CurrencyInputs == {"USD", "EUR", "eur", "XXX"}
Upper(s) == IF s = "eur" THEN "EUR" ELSE s

\* The code of the currency, or "" when CurrencyNotFoundError is raised.
get_currency(code) ==
    IF Upper(code) \in SupportedCodes THEN Upper(code) ELSE ""

(***************************************************************************)
(* The JSON files under data/, read and written through db.load / db.save. *)
(* A use case runs in the single thread of the CLI loop, so each db.save   *)
(* is taken as one replacement of the file here.                           *)
(***************************************************************************)
\* users.json / portfolios.json: a list, or no file.
ListFile(items) == [exists |-> TRUE, items |-> items]
NoListFile      == [exists |-> FALSE, items |-> <<>>]

\* db.load of a list file: {} (a dict, isdict) when the file is missing.
LoadList(f) == [isdict |-> ~f.exists, items |-> f.items]

\* rates.json.  fmt "pairs": {"pairs": {...}, "last_refresh", "source"};
\* fmt "flat": the pair keys at the top level beside "source" and
\* "last_refresh", as written by Portfolio._load_exchange_rates.
RatesFile(fmt, pairs, last_refresh, source) ==
    [exists |-> TRUE, fmt |-> fmt, pairs |-> pairs,
     last_refresh |-> last_refresh, source |-> source]
NoRatesFile ==
    [exists |-> FALSE, fmt |-> "pairs", pairs |-> EmptyMap,
     last_refresh |-> 0, source |-> ""]
PairData(rate, updated_at, source) ==
    [rate |-> rate, updated_at |-> updated_at, source |-> source]

\* Times are seconds counted from 2025-10-09T10:35:00, the last_refresh of
\* the built-in default rates.
DefaultRates ==
    RatesFile("flat",
              (PairKey("EUR", "USD") :> PairData(Frac(10786, 10000), -300, ""))
           @@ (PairKey("BTC", "USD") :> PairData(Frac(5933721, 100), -318, ""))
           @@ (PairKey("RUB", "USD") :> PairData(Frac(1016, 100000), -228, ""))
           @@ (PairKey("ETH", "USD") :> PairData(Frac(3720, 1), 0, "")),
              0, "ParserService")

(***************************************************************************)
(* core/models.py: Portfolio                                               *)
(***************************************************************************)
\* Portfolio._load_exchange_rates, run by every Portfolio(...): an empty or
\* missing rates file is replaced by the default rates.  The file afterwards.
Portfolio_load_exchange_rates(rf) ==
    IF ~rf.exists THEN DefaultRates ELSE rf

\* Portfolio.to_dict / from_dict: wallets as a map currency_code -> balance.
PortfolioDict(user_id, wallets) == [user_id |-> user_id, wallets |-> wallets]

\* Portfolio.get_wallet: TRUE when it returns, FALSE on WalletNotFoundError.
HasWallet(p, currency_code) == currency_code \in DOMAIN p.wallets

\* Portfolio.add_currency on a portfolio that has no such wallet.
Portfolio_add_currency(p, currency_code, initial_balance) ==
    [p EXCEPT !.wallets = Put(p.wallets, currency_code, initial_balance)]

\* Index of the first portfolio of user_id in the list, 0 when there is none.
FindPortfolio(items, user_id) ==
    LET idx == {i \in 1..Len(items) : items[i].user_id = user_id}
    IN IF idx = {} THEN 0 ELSE Min(idx)


(***************************************************************************)
(* core/usecases.py: register_user, login_user                             *)
(***************************************************************************)
UserNames  == {"alice", "bob"}
NameInputs == UserNames \cup {""}
NoSession  == 0

UserDict(user_id, username) == [user_id |-> user_id, username |-> username]

RegisterResult(ok, err, user_id, uf, pf, rf) ==
    [ok |-> ok, err |-> err, user_id |-> user_id,
     users |-> uf, portfolios |-> pf, rates |-> rf]

\* A registration that never finds the username in use.
UsernameTaken_Never(items, username) == FALSE

\* Lines 44-50: the loop over the stored users comparing "username".
UsernameTaken(items, username) ==
    \E i \in 1..Len(items) : items[i].username = username

\* register_user(username, password); password_ok: len(password) >= 4.
register_user(username, password_ok, uf, pf, rf) ==
    IF username = "" THEN RegisterResult(FALSE, "InvalidName", 0, uf, pf, rf)
    ELSE IF ~password_ok THEN RegisterResult(FALSE, "InvalidPassword", 0, uf, pf, rf)
    ELSE
    LET loaded  == LoadList(uf)
        taken   == UsernameTaken(loaded.items, username)
        user_id == IF Len(loaded.items) > 0
                   THEN Max({loaded.items[i].user_id : i \in 1..Len(loaded.items)}) + 1
                   ELSE 1
        uf2     == ListFile(Append(loaded.items, UserDict(user_id, username)))
        plist   == LoadList(pf)
        exists  == FindPortfolio(plist.items, user_id) # 0
    IN  IF taken THEN RegisterResult(FALSE, "UsernameTaken", 0, uf, pf, rf)
        \* users.append on the {} of a missing file
        ELSE IF loaded.isdict
             THEN RegisterResult(FALSE, "AttributeError", 0, uf, pf, rf)
        ELSE IF exists THEN RegisterResult(TRUE, "ok", user_id, uf2, pf, rf)
        \* Portfolio(user_id), then portfolios.append on the {} of a missing file
        ELSE IF plist.isdict
             THEN RegisterResult(FALSE, "AttributeError", 0, uf2, pf,
                                 Portfolio_load_exchange_rates(rf))
        ELSE RegisterResult(TRUE, "ok", user_id, uf2,
                 ListFile(Append(plist.items, PortfolioDict(user_id, EmptyMap))),
                 Portfolio_load_exchange_rates(rf))

\* login_user(username, password): the user_id of the session, 0 on failure.
\* password_ok: the password is long enough and verifies.
login_user(username, password_ok, uf) ==
    LET items == LoadList(uf).items
        idx   == {i \in 1..Len(items) : items[i].username = username}
    IN  IF username = "" \/ ~password_ok \/ idx = {} THEN NoSession
        ELSE items[Min(idx)].user_id

(***************************************************************************)
(* core/usecases.py: buy_currency, sell_currency                           *)
(***************************************************************************)
TradeResult(ok, err, rate, old_balance, new_balance, amount, pf, rf) ==
    [ok |-> ok, err |-> err, rate |-> rate,
     cost_usd |-> IF ok THEN FracMul(FracOfInt(amount), rate) ELSE Zero,
     old_balance |-> old_balance, new_balance |-> new_balance,
     available |-> 0, required |-> 0,
     portfolios |-> pf, rates |-> rf]

TradeFail(err, pf, rf) == TradeResult(FALSE, err, Zero, 0, 0, 0, pf, rf)

\* buy_currency, lines 261-271: the pair table read from rates.json.  A file
\* without "pairs" gives an empty table.
BuyRatesTable(rf) ==
    IF rf.exists /\ rf.fmt = "pairs" THEN rf.pairs ELSE EmptyMap

\* sell_currency, lines 405-415: a file without "pairs" is used as the table.
SellRatesTable(rf) == IF rf.exists THEN rf.pairs ELSE EmptyMap

\* Pricing that falls back to rate 1 when the pair is not usable.
TradeRate_DefaultRate(currency_code, table) ==
    IF currency_code = "USD" THEN [err |-> "ok", rate |-> One]
    ELSE IF PairKey(currency_code, "USD") \notin DOMAIN table
         THEN [err |-> "ok", rate |-> One]
    ELSE IF table[PairKey(currency_code, "USD")].rate[1] <= 0
         THEN [err |-> "ok", rate |-> One]
    ELSE [err |-> "ok", rate |-> table[PairKey(currency_code, "USD")].rate]

\* Lines 273-290 / 418-435: the rate CODE -> USD; err "ApiRequestError" when
\* the pair is not in the table or its rate is <= 0.
TradeRate(currency_code, table) ==
    IF currency_code = "USD" THEN [err |-> "ok", rate |-> One]
    ELSE IF PairKey(currency_code, "USD") \notin DOMAIN table
         THEN [err |-> "ApiRequestError", rate |-> Zero]
    ELSE IF table[PairKey(currency_code, "USD")].rate[1] <= 0
         THEN [err |-> "ApiRequestError", rate |-> Zero]
    ELSE [err |-> "ok", rate |-> table[PairKey(currency_code, "USD")].rate]

\* Lines 244-258 / 388-402: "ok", or why the call is rejected before any
\* file is read.
ValidateTrade(session_data, currency, amount) ==
    IF session_data = NoSession THEN "NotLoggedIn"
    ELSE IF ~amount.isnum THEN "NotANumber"
    ELSE IF amount.v <= 0 THEN "InvalidAmountError"
    ELSE IF get_currency(currency) = "" THEN "CurrencyNotFoundError"
    ELSE "ok"

\* buy_currency saving the bought wallet into the first portfolio of the
\* list instead of the one found.
BuyApply_FirstPortfolio(items, idx, currency, amount, rate, rf) ==
    LET p   == items[idx]
        has == HasWallet(p, currency)
        old == IF has THEN p.wallets[currency] ELSE 0
        p2  == Portfolio_add_currency(p, currency, old + amount.v)
    IN  TradeResult(TRUE, "ok", rate, old, p2.wallets[currency], amount.v,
                    ListFile([items EXCEPT ![1] = p2]), rf)

\* A buy whose report is computed before the deposit: the balance after the
\* trade is reported as the balance before it.
BuyApply_StaleReport(items, idx, currency, amount, rate, rf) ==
    LET p   == items[idx]
        has == HasWallet(p, currency)
        old == IF has THEN p.wallets[currency] ELSE 0
        p2  == Portfolio_add_currency(p, currency, old + amount.v)
    IN  TradeResult(TRUE, "ok", rate, old, old, amount.v,
                    ListFile([items EXCEPT ![idx] = p2]), rf)

\* buy_currency, lines 313-341, on the portfolio found at idx: the wallet is
\* looked up under the currency argument as given.
BuyApply(items, idx, currency, amount, rate, rf) ==
    LET p   == items[idx]
        has == HasWallet(p, currency)
        old == IF has THEN p.wallets[currency] ELSE 0
        dep == Wallet_deposit(Wallet(currency, old), amount)
        p2  == IF has
               THEN [p EXCEPT !.wallets[currency] = dep.wallet.balance]
               ELSE Portfolio_add_currency(p, currency, amount.v)
    IN  IF has /\ dep.err # "ok"
        THEN TradeFail(dep.err, ListFile(items), rf)
        ELSE TradeResult(TRUE, "ok", rate, old, p2.wallets[currency], amount.v,
                         ListFile([items EXCEPT ![idx] = p2]), rf)

\* A rejection that comes only after Portfolio(...) has been built, which
\* rewrites a missing rates.json.
RejectAfterPortfolioLoad(err, pf, rf) ==
    TradeFail(err, pf, Portfolio_load_exchange_rates(rf))

\* Lines 244-258 / 388-402: the early return or raise of a rejected call.
RejectAtValidation(err, pf, rf) == TradeFail(err, pf, rf)

\* buy_currency, lines 295-336: db.load(PORTFOLIOS_FILE), the search for the
\* user's portfolio and the change made on the loaded copy.  The result
\* carries the list that line 341 saves.
BuyLoad(user_id, currency, amount, rate, pf, rf) ==
    LET loaded == LoadList(pf)
        idx    == FindPortfolio(loaded.items, user_id)
        \* Portfolio(...) reads, and may write, rates.json
        rf2    == Portfolio_load_exchange_rates(rf)
    IN  \* lines 306-311: no portfolio: an empty one is appended and saved,
        \* then Portfolio.from_dict(None) raises
        IF idx = 0 /\ loaded.isdict THEN TradeFail("AttributeError", pf, rf2)
        ELSE IF idx = 0
             THEN TradeFail("TypeError",
                     ListFile(Append(loaded.items,
                                     PortfolioDict(user_id, EmptyMap))), rf2)
        ELSE BuyApply(loaded.items, idx, currency, amount, rate, rf2)

buy_currency(session_data, currency, amount, pf, rf) ==
    LET v      == ValidateTrade(session_data, currency, amount)
        price  == TradeRate(get_currency(currency), BuyRatesTable(rf))
    IN  IF v # "ok" THEN RejectAtValidation(v, pf, rf)
        ELSE IF price.err # "ok" THEN TradeFail(price.err, pf, rf)
        ELSE BuyLoad(session_data, currency, amount, price.rate, pf, rf)

\* A sale that hands out whatever the wallet holds when the amount asked
\* is larger than the balance.
SellApply_SellAll(items, idx, currency, amount, rate, rf) ==
    LET p    == items[idx]
        has  == HasWallet(p, currency)
        old  == IF has THEN p.wallets[currency] ELSE 0
        sold == IF amount.v > old THEN old ELSE amount.v
    IN  IF ~has THEN TradeFail("NoWallet", ListFile(items), rf)
        ELSE TradeResult(TRUE, "ok", rate, old, old - sold, sold,
                 ListFile([items EXCEPT ![idx] =
                              [p EXCEPT !.wallets[currency] = old - sold]]),
                 rf)

\* A sale that charges a fee of one unit on top of the amount sold.
SellApply_WithFee(items, idx, currency, amount, rate, rf) ==
    LET p   == items[idx]
        has == HasWallet(p, currency)
        old == IF has THEN p.wallets[currency] ELSE 0
        wd  == Wallet_withdraw(Wallet(currency, old), Num(amount.v + 1))
    IN  IF ~has THEN TradeFail("NoWallet", ListFile(items), rf)
        ELSE IF wd.err # "ok"
             THEN TradeFail(wd.err, ListFile(items), rf)
        ELSE TradeResult(TRUE, "ok", rate, old, wd.wallet.balance, amount.v,
                 ListFile([items EXCEPT ![idx] =
                              [p EXCEPT !.wallets[currency] = wd.wallet.balance]]),
                 rf)

\* sell_currency, lines 457-482, on the portfolio found at idx.
SellApply(items, idx, currency, amount, rate, rf) ==
    LET p   == items[idx]
        has == HasWallet(p, currency)
        old == IF has THEN p.wallets[currency] ELSE 0
        wd  == Wallet_withdraw(Wallet(currency, old), amount)
    IN  IF ~has THEN TradeFail("NoWallet", ListFile(items), rf)
        ELSE IF wd.err # "ok"
             \* InsufficientFundsError(available=balance, required=amount)
             THEN [TradeFail(wd.err, ListFile(items), rf)
                      EXCEPT !.available = IF wd.err = "InsufficientFundsError"
                                           THEN old ELSE 0,
                             !.required  = IF wd.err = "InsufficientFundsError"
                                           THEN amount.v ELSE 0]
        ELSE TradeResult(TRUE, "ok", rate, old, wd.wallet.balance, amount.v,
                 ListFile([items EXCEPT ![idx] =
                              [p EXCEPT !.wallets[currency] = wd.wallet.balance]]),
                 rf)

\* sell_currency, lines 440-475: db.load(PORTFOLIOS_FILE), the search for
\* the user's portfolio and the change made on the loaded copy.
SellLoad(user_id, currency, amount, rate, pf, rf) ==
    LET loaded == LoadList(pf)
        idx    == FindPortfolio(loaded.items, user_id)
        rf2    == Portfolio_load_exchange_rates(rf)
    IN  IF idx = 0 THEN TradeFail("PortfolioNotFound", pf, rf)
        ELSE SellApply(loaded.items, idx, currency, amount, rate, rf2)

sell_currency(session_data, currency, amount, pf, rf) ==
    LET v      == ValidateTrade(session_data, currency, amount)
        price  == TradeRate(get_currency(currency), SellRatesTable(rf))
    IN  IF v # "ok" THEN RejectAtValidation(v, pf, rf)
        ELSE IF price.err # "ok" THEN TradeFail(price.err, pf, rf)
        ELSE SellLoad(session_data, currency, amount, price.rate, pf, rf)


(***************************************************************************)
(* Initial values.                                                         *)
(***************************************************************************)
NoWres == [op |-> "none", amount |-> Num(0), err |-> "ok", before |-> 0]

NoLast ==
    [op |-> "none", user |-> NoSession, currency |-> "", amount |-> Num(0),
     ok |-> FALSE, err |-> "", rate |-> Zero, cost_usd |-> Zero,
     old_balance |-> 0, new_balance |-> 0, available |-> 0, required |-> 0]

\* What a trade returns: on success the "data" of the result (currency,
\* amount, rate, cost_usd, the wallet before and after); on failure the
\* message, which names the currency (no wallet), the currency with the
\* available and required amounts (insufficient funds) or the currency code
\* (no rate).
TradeLast(op, user, currency, amount, r) ==
    LET named == r.ok \/ r.err \in {"NoWallet", "InsufficientFundsError"}
    IN  [op |-> op, user |-> IF r.ok THEN user ELSE NoSession,
         \* the ApiRequestError messages name currency_code
         currency |-> IF named THEN currency
                      ELSE IF r.err = "ApiRequestError" THEN get_currency(currency)
                      ELSE "",
         amount |-> IF r.ok THEN amount ELSE Num(0),
         ok |-> r.ok, err |-> r.err, rate |-> r.rate, cost_usd |-> r.cost_usd,
         old_balance |-> r.old_balance, new_balance |-> r.new_balance,
         available |-> r.available, required |-> r.required]

OtherLast(op, user, ok, err) ==
    [NoLast EXCEPT !.op = op, !.user = user, !.ok = ok, !.err = err]

WalletIdle == wallet = Wallet("USD", 0) /\ wres = NoWres
DbIdle     == /\ disk = [path |-> Missing, tmp |-> Missing]
              /\ saver = SaverIdle
              /\ loader = LoaderIdle
ProcsIdle  == procs = <<>>

\* The cache file of a client, <class name>_cache.json: missing, or the
\* entry "rates" with its timestamp and data.  The clients are named as
\* run_update names them in sources_used.
CacheClients == {"CoinGecko", "ExchangeRate-API"}
NoCache == [exists |-> FALSE, timestamp |-> 0, data |-> EmptyMap]
CacheFile(timestamp, data) ==
    [exists |-> TRUE, timestamp |-> timestamp, data |-> data]
CacheIdle  == cache = [c \in CacheClients |-> NoCache]

\* rates.json as the ledger finds it: missing, or a snapshot with EUR_USD
\* at 27/25 (1.08), with EUR_USD at 0, or with only the pair USD_EUR at 2.
Snapshot(pairs, last_refresh, source) ==
    RatesFile("pairs", pairs, last_refresh, source)
LedgerRates ==
    { NoRatesFile,
      Snapshot(PairKey("EUR", "USD") :> PairData(Frac(108, 100), 0, "ParserService"),
               0, "ParserService"),
      Snapshot(PairKey("EUR", "USD") :> PairData(Zero, 0, "CoinGecko"),
               0, "CoinGecko"),
      Snapshot(PairKey("USD", "EUR") :> PairData(FracOfInt(2), 0, "ParserService"),
               0, "ParserService") }

AppInit ==
    /\ users = ListFile(<<>>)
    /\ portfolios = ListFile(<<>>)
    /\ rates \in LedgerRates
    /\ history = NoListFile
    /\ session = NoSession
    /\ now = 0
    /\ last = NoLast

(***************************************************************************)
(* SpecWallet: calls of deposit and withdraw on one Wallet object.         *)
(***************************************************************************)
InitWallet ==
    /\ wallet \in {Wallet(c, b) : c \in SupportedCodes, b \in 0..MaxBalance}
    /\ wres = NoWres
    /\ DbIdle /\ CacheIdle /\ ProcsIdle
    /\ AppInit /\ rates = NoRatesFile

Deposit ==
    \E amount \in AmountInputs :
        \E r \in {Wallet_deposit(wallet, amount)} :
            /\ r.wallet.balance <= MaxBalance
            /\ wallet' = r.wallet
            /\ wres' = [op |-> "deposit", amount |-> amount, err |-> r.err,
                        before |-> wallet.balance]
            /\ UNCHANGED <<dbVars, appVars, procs, cache>>

Withdraw ==
    \E amount \in AmountInputs :
        \E r \in {Wallet_withdraw(wallet, amount)} :
            /\ wallet' = r.wallet
            /\ wres' = [op |-> "withdraw", amount |-> amount, err |-> r.err,
                        before |-> wallet.balance]
            /\ UNCHANGED <<dbVars, appVars, procs, cache>>

NextWallet == Deposit \/ Withdraw
SpecWallet == InitWallet /\ [][NextWallet]_vars

(***************************************************************************)
(* SpecDb: one thread in db.save, one in db.load, on the same file; the    *)
(* process may die inside save.                                            *)
(***************************************************************************)
InitDb ==
    /\ DbIdle /\ CacheIdle /\ WalletIdle /\ ProcsIdle
    /\ AppInit /\ rates = NoRatesFile

NextDb ==
    \/ (SaveOpenTmp /\ UNCHANGED <<walletVars, appVars, procs, cache>>)
    \/ (SaveDump /\ UNCHANGED <<walletVars, appVars, procs, cache>>)
    \/ (SaveCheckExists /\ UNCHANGED <<walletVars, appVars, procs, cache>>)
    \/ (SaveRemove /\ UNCHANGED <<walletVars, appVars, procs, cache>>)
    \/ (SaveRename /\ UNCHANGED <<walletVars, appVars, procs, cache>>)
    \/ (Crash /\ UNCHANGED <<walletVars, appVars, procs, cache>>)
    \/ (LoadCheckExists /\ UNCHANGED <<walletVars, appVars, procs, cache>>)
    \/ (LoadRead /\ UNCHANGED <<walletVars, appVars, procs, cache>>)
SpecDb == InitDb /\ [][NextDb]_vars

(***************************************************************************)
(* Spec: the use cases called one at a time from the CLI loop.             *)
(***************************************************************************)
Init == AppInit /\ WalletIdle /\ DbIdle /\ CacheIdle /\ ProcsIdle

Register ==
    \E username \in NameInputs, password_ok \in BOOLEAN :
        \E r \in {register_user(username, password_ok, users, portfolios, rates)} :
            /\ users' = r.users
            /\ portfolios' = r.portfolios
            /\ rates' = r.rates
            /\ last' = OtherLast("register", r.user_id, r.ok, r.err)
            /\ UNCHANGED <<history, session, now, walletVars, dbVars, procs, cache>>

\* main.py, lines 91-104: the session is replaced on a successful login.
Login ==
    \E username \in NameInputs, password_ok \in BOOLEAN :
        \E uid \in {login_user(username, password_ok, users)} :
            /\ session' = IF uid # NoSession THEN uid ELSE session
            /\ last' = OtherLast("login", uid, uid # NoSession, "")
            /\ UNCHANGED <<users, portfolios, rates, history, now,
                           walletVars, dbVars, procs, cache>>

\* main.py, lines 112-114.
Logout ==
    /\ session' = NoSession
    /\ last' = OtherLast("logout", session, TRUE, "")
    /\ UNCHANGED <<users, portfolios, rates, history, now,
                   walletVars, dbVars, procs, cache>>

RECURSIVE SumOver(_, _)
SumOver(f, keys) ==
    IF keys = {} THEN 0
    ELSE LET k == CHOOSE x \in keys : TRUE
         IN  f[k] + SumOver(f, keys \ {k})

\* Sum of every wallet balance of a portfolios file.
TotalHeld(pf) ==
    LET held == [j \in 1..Len(pf.items) |->
                    SumOver(pf.items[j].wallets, DOMAIN pf.items[j].wallets)]
    IN  SumOver(held, DOMAIN held)

Buy ==
    \E currency \in CurrencyInputs, amount \in AmountInputs :
        \E r \in {buy_currency(session, currency, amount, portfolios, rates)} :
            /\ r.ok => TotalHeld(r.portfolios) <= MaxHolding
            /\ portfolios' = r.portfolios
            /\ rates' = r.rates
            /\ last' = TradeLast("buy", session, currency, amount, r)
            /\ UNCHANGED <<users, history, session, now, walletVars, dbVars, procs, cache>>

Sell ==
    \E currency \in CurrencyInputs, amount \in AmountInputs :
        \E r \in {sell_currency(session, currency, amount, portfolios, rates)} :
            /\ portfolios' = r.portfolios
            /\ rates' = r.rates
            /\ last' = TradeLast("sell", session, currency, amount, r)
            /\ UNCHANGED <<users, history, session, now, walletVars, dbVars, procs, cache>>

Next == Register \/ Login \/ Logout \/ Buy \/ Sell
Spec == Init /\ [][Next]_vars

(***************************************************************************)
(* The rate updater (parser_service/updater.py).                           *)
(***************************************************************************)
RATES_TTL_SECONDS == 300
HISTORY_CAP == 1000

\* What fetch_rates() of a client gives: ApiRequestError, or a map of pairs.
FetchFail      == [ok |-> FALSE, rates |-> EmptyMap]
FetchOk(m)     == [ok |-> TRUE, rates |-> m]

\* CoinGeckoClient.fetch_rates: float(data[id]["usd"]) is stored as it
\* comes, 0 included; a reply without the coin gives an empty map.
CryptoOutcomes ==
    { FetchFail, FetchOk(EmptyMap),
      FetchOk(PairKey("BTC", "USD") :> Frac(4, 1)),
      FetchOk(PairKey("BTC", "USD") :> Zero) }

\* ExchangeRateApiClient.fetch_rates: only rates > 0 are kept, as 1 / rate.
FiatOutcomes ==
    { FetchFail, FetchOk(PairKey("EUR", "USD") :> Frac(2, 1)) }

SourceInputs == {"all", "coingecko", "exchangerate", "other"}

\* dict.update: the entries of b replace those of a.
Merge(a, b) ==
    [k \in (DOMAIN a) \cup (DOMAIN b) |-> IF k \in DOMAIN b THEN b[k] ELSE a[k]]

AsksCrypto(source) == source \in {"all", "coingecko"}
AsksFiat(source)   == source \in {"all", "exchangerate"}

\* An update that gives up on all rates when an asked client fails.
MergedRates_AbortOnFailure(source, crypto, fiat) ==
    IF (AsksCrypto(source) /\ ~crypto.ok) \/ (AsksFiat(source) /\ ~fiat.ok)
    THEN EmptyMap
    ELSE Merge(IF AsksCrypto(source) THEN crypto.rates ELSE EmptyMap,
               IF AsksFiat(source) THEN fiat.rates ELSE EmptyMap)

\* run_update, lines 45-71: all_rates, sources_used and errors.
MergedRates(source, crypto, fiat) ==
    Merge(IF AsksCrypto(source) /\ crypto.ok THEN crypto.rates ELSE EmptyMap,
          IF AsksFiat(source) /\ fiat.ok THEN fiat.rates ELSE EmptyMap)

SourcesUsed(source, crypto, fiat) ==
    (IF AsksCrypto(source) /\ crypto.ok THEN <<"CoinGecko">> ELSE <<>>)
    \o (IF AsksFiat(source) /\ fiat.ok THEN <<"ExchangeRate-API">> ELSE <<>>)

FetchErrors(source, crypto, fiat) ==
    (IF AsksCrypto(source) /\ ~crypto.ok THEN <<"CoinGecko">> ELSE <<>>)
    \o (IF AsksFiat(source) /\ ~fiat.ok THEN <<"ExchangeRate-API">> ELSE <<>>)

\* ", ".join(sources_used) if sources_used else "ParserService"
JoinSources(sources_used) ==
    IF sources_used = <<>> THEN "ParserService"
    ELSE IF Len(sources_used) = 2 THEN "CoinGecko, ExchangeRate-API"
    ELSE sources_used[1]

\* A snapshot whose stored rates drift with the time of the run.
BuildSnapshot_Drifting(all_rates, sources_used, t) ==
    Snapshot([k \in DOMAIN all_rates |->
                 PairData(FracMul(all_rates[k], FracOfInt(t + 1)), t,
                          IF sources_used = <<>> THEN "ParserService"
                          ELSE sources_used[1])],
             t, JoinSources(sources_used))

\* run_update, lines 77-89: every pair is stamped with the first source.
BuildSnapshot(all_rates, sources_used, t) ==
    Snapshot([k \in DOMAIN all_rates |->
                 PairData(all_rates[k], t,
                          IF sources_used = <<>> THEN "ParserService"
                          ELSE sources_used[1])],
             t, JoinSources(sources_used))

\* The order in which all_rates is walked: crypto pairs, then fiat pairs.
PairOrder == <<PairKey("BTC", "USD"), PairKey("EUR", "USD")>>

HistoryRecord(k, rate, sources_used, t) ==
    [id |-> <<k, t>>, from_currency |-> k[1], to_currency |-> k[2],
     rate |-> rate, timestamp |-> t, source |-> JoinSources(sources_used)]

\* _save_to_history, lines 126-138: one record for every pair of all_rates.
HistoryRecords(all_rates, sources_used, t) ==
    LET present == SelectSeq(PairOrder, LAMBDA k : k \in DOMAIN all_rates)
    IN  [i \in 1..Len(present) |->
            HistoryRecord(present[i], all_rates[present[i]], sources_used, t)]

\* A cut that keeps the oldest records.
LastN_KeepFirst(seq, n) ==
    IF Len(seq) > n THEN SubSeq(seq, 1, n) ELSE seq

\* history[-n:]
LastN(seq, n) ==
    IF Len(seq) > n THEN SubSeq(seq, Len(seq) - n + 1, Len(seq)) ELSE seq

\* _save_to_history, lines 118-146: the list saved, given the file loaded.
AppendHistory(hf, records) ==
    ListFile(LastN(LoadList(hf).items \o records, HISTORY_CAP))

\* A constructor that starts every updater from empty storage.
RatesUpdater_init_storage_files_Reset(rf, hf, t) ==
    [rates   |-> Snapshot(EmptyMap, t, "initial"),
     history |-> ListFile(<<>>)]

\* RatesUpdater._init_storage_files.
RatesUpdater_init_storage_files(rf, hf, t) ==
    [rates   |-> IF ~rf.exists THEN Snapshot(EmptyMap, t, "initial") ELSE rf,
     history |-> IF ~hf.exists THEN ListFile(<<>>) ELSE hf]

UpdateResult(ok, all_rates, sources_used, errors, t, rf, hf) ==
    [ok |-> ok, rates_count |-> Cardinality(DOMAIN all_rates),
     sources |-> sources_used, errors |-> errors, last_refresh |-> t,
     rates |-> rf, history |-> hf]

\* Line 74: the reason of the ApiRequestError raised when all_rates is empty
\* ("Не удалось получить курсы").
NoRatesFetched == "Ne udalos poluchit kursy"

\* An update that writes the fetched pairs into the stored snapshot and
\* keeps the pairs it did not fetch.
run_update_KeepOldPairs(source, crypto, fiat, rf, hf, t) ==
    LET st           == RatesUpdater_init_storage_files(rf, hf, t)
        all_rates    == MergedRates(source, crypto, fiat)
        sources_used == SourcesUsed(source, crypto, fiat)
        errors       == FetchErrors(source, crypto, fiat)
        fresh        == BuildSnapshot(all_rates, sources_used, t)
    IN  IF all_rates = EmptyMap
        THEN UpdateResult(FALSE, EmptyMap, <<>>, <<NoRatesFetched>>, 0,
                          st.rates, st.history)
        ELSE UpdateResult(TRUE, all_rates, sources_used, errors, t,
                 [fresh EXCEPT !.pairs = Merge(st.rates.pairs, fresh.pairs)],
                 AppendHistory(st.history,
                               HistoryRecords(all_rates, sources_used, t)))

\* RatesUpdater(...).run_update(source) at time t.  ok FALSE: ApiRequestError
\* is raised; the local list errors is dropped with the frame, and the
\* caller (usecases.update_rates, lines 663-668) returns the exception's
\* message as the only entry of "errors", without sources or last_refresh.
run_update(source, crypto, fiat, rf, hf, t) ==
    LET st           == RatesUpdater_init_storage_files(rf, hf, t)
        all_rates    == MergedRates(source, crypto, fiat)
        sources_used == SourcesUsed(source, crypto, fiat)
        errors       == FetchErrors(source, crypto, fiat)
    IN  IF all_rates = EmptyMap
        THEN UpdateResult(FALSE, EmptyMap, <<>>, <<NoRatesFetched>>, 0,
                          st.rates, st.history)
        ELSE UpdateResult(TRUE, all_rates, sources_used, errors, t,
                 BuildSnapshot(all_rates, sources_used, t),
                 AppendHistory(st.history,
                               HistoryRecords(all_rates, sources_used, t)))

(***************************************************************************)
(* The rate query (usecases.get_exchange_rate).                            *)
(***************************************************************************)
DEFAULT_BASE_CURRENCY == "USD"

Resolved(err, rate) == [err |-> err, rate |-> rate]

\* Lines 567-626: the if / elif / elif chain over the table of the file, then
\* the test "rate is None or rate == 0".  A file without "pairs" is used as
\* the table itself, its values are dicts and the arithmetic on them raises.
ResolveRate(from_code, to_code, rf) ==
    LET table         == IF rf.exists THEN rf.pairs ELSE EmptyMap
        flat          == rf.exists /\ rf.fmt = "flat"
        direct_key    == PairKey(from_code, to_code)
        reverse_key   == PairKey(to_code, from_code)
        base_key_from == PairKey(from_code, DEFAULT_BASE_CURRENCY)
        base_key_to   == PairKey(to_code, DEFAULT_BASE_CURRENCY)
        NotAvailable  == Resolved("ApiRequestError", Zero)
        Checked(rate) == IF IsZero(rate) THEN NotAvailable ELSE Resolved("ok", rate)
    IN  IF direct_key \in DOMAIN table
        THEN IF flat THEN Resolved("TypeError", Zero)
             ELSE Checked(table[direct_key].rate)
        ELSE IF reverse_key \in DOMAIN table
        THEN IF flat THEN Resolved("TypeError", Zero)
             ELSE IF ~IsZero(table[reverse_key].rate)
                  THEN Checked(FracInv(table[reverse_key].rate))
                  ELSE NotAvailable
        ELSE IF base_key_from \in DOMAIN table /\ base_key_to \in DOMAIN table
        THEN IF flat THEN Resolved("TypeError", Zero)
             ELSE IF ~IsZero(table[base_key_to].rate)
                  THEN Checked(FracDiv(table[base_key_from].rate,
                                       table[base_key_to].rate))
                  ELSE NotAvailable
        ELSE NotAvailable

\* core/utils.py convert_rates(from_currency, to_currency, rates), used by
\* show_user_portfolio and show_rates: always through the base currency.
\* err "NotFound" is the result 0 with the message that the rate is not
\* found; the exceptions leave the function.
convert_rates(from_currency, to_currency, rf) ==
    LET BASE      == DEFAULT_BASE_CURRENCY
        from_code == get_currency(from_currency)
        to_code   == get_currency(to_currency)
        from_key  == PairKey(from_code, BASE)
        to_key    == PairKey(to_code, BASE)
        exchange_rates == IF rf.exists THEN rf.pairs ELSE EmptyMap
        flat      == rf.exists /\ rf.fmt = "flat"
        base_key  == PairKey(BASE, BASE)
        rate_base == IF to_key = base_key THEN One ELSE exchange_rates[to_key].rate
        rate_curr == IF from_key = base_key THEN One ELSE exchange_rates[from_key].rate
    IN  IF from_code = "" \/ to_code = ""
        THEN Resolved("CurrencyNotFoundError", Zero)
        ELSE IF to_key # base_key /\ to_key \notin DOMAIN exchange_rates
        THEN Resolved("NotFound", Zero)
        ELSE IF from_key # base_key /\ from_key \notin DOMAIN exchange_rates
        THEN Resolved("NotFound", Zero)
        ELSE IF flat /\ (to_key # base_key \/ from_key # base_key)
        THEN Resolved("TypeError", Zero)
        ELSE IF IsZero(rate_base) THEN Resolved("ZeroDivisionError", Zero)
        ELSE Resolved("ok", FracDiv(rate_curr, rate_base))

RateResult(ok, err, from_code, to_code, rate, rf, hf) ==
    [ok |-> ok, err |-> err, from |-> from_code, to |-> to_code, rate |-> rate,
     rates |-> rf, history |-> hf]

\* Lines 545-565: the snapshot is older than the TTL.  A missing file has no
\* last_refresh and the failed parse is swallowed.
IsStale(rf, t) == rf.exists /\ t - rf.last_refresh > RATES_TTL_SECONDS

\* core/utils.py is_rate_fresh(updated_at, max_age_minutes) at time t, in
\* seconds: the age is strictly below the maximum age.
is_rate_fresh(updated_at, max_age_minutes, t) ==
    t - updated_at < 60 * max_age_minutes

\* A query that never takes the same-currency exit.
SameCurrency_Never(f, g) == FALSE

\* Line 531: from_currency == to_currency, after upper().strip().
SameCurrency(f, g) == f = g

\* A query that has no rates to read once a refresh has failed.
RatesAfterRefresh_FailWhenStale(stale, upd, rf) ==
    IF stale THEN (IF upd.ok THEN upd.rates ELSE NoRatesFile) ELSE rf

\* Lines 554-563: rates_data is reloaded only after a successful update; a
\* failed one is swallowed and the data loaded before it is kept.
RatesAfterRefresh(stale, upd, rf) ==
    IF stale /\ upd.ok THEN upd.rates ELSE rf

\* get_exchange_rate(from_currency, to_currency) at time t; crypto and fiat
\* are what the clients would give if asked.
get_exchange_rate(from_currency, to_currency, crypto, fiat, rf, hf, t) ==
    LET f    == Upper(from_currency)
        g    == Upper(to_currency)
        upd  == run_update("all", crypto, fiat, rf, hf, t)
        rf2  == IF IsStale(rf, t) THEN upd.rates ELSE rf
        hf2  == IF IsStale(rf, t) THEN upd.history ELSE hf
        data == RatesAfterRefresh(IsStale(rf, t), upd, rf)
        res  == ResolveRate(f, g, data)
    IN  IF f = "" \/ g = ""
        THEN RateResult(FALSE, "ValueError", "", "", Zero, rf, hf)
        ELSE IF SameCurrency(f, g) THEN RateResult(TRUE, "ok", f, g, One, rf, hf)
        ELSE IF get_currency(f) = "" \/ get_currency(g) = ""
        THEN RateResult(FALSE, "CurrencyNotFoundError", "", "", Zero, rf, hf)
        ELSE RateResult(res.err = "ok", res.err, f, g, res.rate, rf2, hf2)

\* update_rates(source): RatesUpdater().run_update(source), errors reported.
update_rates(source, crypto, fiat, rf, hf, t) ==
    run_update(source, crypto, fiat, rf, hf, t)

(***************************************************************************)
(* SpecRate: rate queries and rate updates called one at a time while the  *)
(* clock advances.  rates.json starts as any snapshot over StorePairs.     *)
(***************************************************************************)
RateCodeInputs == {"USD", "EUR", "BTC", "eur", "XXX", ""}
StorePairs ==
    { PairKey("EUR", "BTC"), PairKey("BTC", "EUR"),
      PairKey("EUR", "USD"), PairKey("BTC", "USD") }
StoreRates == {Zero, Frac(2, 1), Frac(4, 1)}

PairTables ==
    UNION { [present -> StoreRates] : present \in SUBSET StorePairs }

RateStores ==
    { NoRatesFile } \cup
    { Snapshot([k \in DOMAIN m |-> PairData(m[k], 0, "ParserService")],
               0, "ParserService") : m \in PairTables }

RateLast(r) ==
    [op |-> "get_rate", ok |-> r.ok, err |-> r.err, from |-> r.from,
     to |-> r.to, rate |-> r.rate]

UpdateLast(source, r) ==
    [op |-> "update_rates", ok |-> r.ok, rates_count |-> r.rates_count,
     sources |-> r.sources, errors |-> r.errors, last_refresh |-> r.last_refresh]

InitRate ==
    /\ users = ListFile(<<>>)
    /\ portfolios = ListFile(<<>>)
    /\ rates \in RateStores
    /\ history = NoListFile
    /\ session = NoSession /\ now = 0 /\ last = NoLast
    /\ WalletIdle /\ DbIdle /\ CacheIdle /\ ProcsIdle

\* The next command reaches the CLI loop 300 or 301 seconds later.
Tick ==
    \E d \in {RATES_TTL_SECONDS, RATES_TTL_SECONDS + 1} :
        /\ now + d <= MaxClock
        /\ now' = now + d
        /\ UNCHANGED <<users, portfolios, rates, history, session, last,
                       walletVars, dbVars, procs, cache>>

GetRate ==
    \* the clients are asked only by a query that finds the snapshot stale
    \E from_currency \in RateCodeInputs, to_currency \in SupportedCodes \cup {"XXX"},
       crypto \in IF IsStale(rates, now) THEN CryptoOutcomes ELSE {FetchFail},
       fiat \in IF IsStale(rates, now) THEN FiatOutcomes ELSE {FetchFail} :
        \E r \in {get_exchange_rate(from_currency, to_currency, crypto, fiat,
                                    rates, history, now)} :
            /\ Len(r.history.items) <= MaxHistory
            /\ rates' = r.rates
            /\ history' = r.history
            /\ last' = RateLast(r)
            /\ UNCHANGED <<users, portfolios, session, now, walletVars, dbVars, procs, cache>>

UpdateRates ==
    \E source \in SourceInputs :
    \E crypto \in IF AsksCrypto(source) THEN CryptoOutcomes ELSE {FetchFail},
       fiat \in IF AsksFiat(source) THEN FiatOutcomes ELSE {FetchFail} :
        \E r \in {update_rates(source, crypto, fiat, rates, history, now)} :
            /\ Len(r.history.items) <= MaxHistory
            /\ rates' = r.rates
            /\ history' = r.history
            /\ last' = UpdateLast(source, r)
            /\ UNCHANGED <<users, portfolios, session, now, walletVars, dbVars, procs, cache>>

\* A conversion for a listing (show_user_portfolio, show_rates): reads only.
Convert ==
    \E from_currency \in SupportedCodes \cup {"XXX"}, to_currency \in SupportedCodes :
        \E r \in {convert_rates(from_currency, to_currency, rates)} :
            /\ last' = [op |-> "convert", ok |-> r.err = "ok", err |-> r.err,
                        from |-> from_currency, to |-> to_currency, rate |-> r.rate]
            /\ UNCHANGED <<users, portfolios, rates, history, session, now,
                           walletVars, dbVars, procs, cache>>

NextRate == Tick \/ GetRate \/ UpdateRates \/ Convert
SpecRate == InitRate /\ [][NextRate]_vars

(***************************************************************************)
(* SpecUpd: the scheduler thread's update and the update started by a rate *)
(* query that found the snapshot stale, running at the same time.  An      *)
(* update is cut at its accesses to rates.json and exchange_rates.json;    *)
(* db.save is taken as one step here.  The code takes no lock.             *)
(***************************************************************************)
UpdProcs == {"timer", "query"}

\* scheduler.py imports ExchangeRateUpdater from a module that is not part
\* of the sources; its update_rates() is taken to run run_update for every
\* source.
ExchangeRateUpdater_update_rates == "all"

UpdProcIdle ==
    [pc |-> "idle", ok |-> FALSE, all_rates |-> EmptyMap, sources |-> <<>>,
     timestamp |-> 0, hist |-> NoListFile]

UpdInitRates ==
    Snapshot(PairKey("BTC", "USD") :> PairData(Frac(2, 1), 0, "CoinGecko"),
             0, "CoinGecko")
UpdInitHistory ==
    ListFile(<<HistoryRecord(PairKey("BTC", "USD"), Frac(2, 1), <<"CoinGecko">>, 0)>>)

InitUpd ==
    /\ users = ListFile(<<>>)
    /\ portfolios = ListFile(<<>>)
    /\ rates = UpdInitRates
    /\ history = UpdInitHistory
    /\ session = NoSession /\ last = NoLast
    /\ now = RATES_TTL_SECONDS + 1
    /\ procs = [p \in UpdProcs |-> UpdProcIdle]
    /\ WalletIdle /\ DbIdle /\ CacheIdle

\* scheduler._run, lines 28-30, wakes up; or get_exchange_rate, lines
\* 546-559, finds the snapshot stale.  Then run_update, lines 45-89: the
\* clients are asked and the snapshot is built with the time read now.
UpdFetch(p) ==
    /\ procs[p].pc = "idle"
    /\ p = "query" => IsStale(rates, now)
    /\ \E crypto \in CryptoOutcomes, fiat \in FiatOutcomes :
          LET source       == IF p = "timer" THEN ExchangeRateUpdater_update_rates
                                             ELSE "all"
              all_rates    == MergedRates(source, crypto, fiat)
              sources_used == SourcesUsed(source, crypto, fiat)
          IN  procs' = [procs EXCEPT ![p] =
                  [pc |-> IF all_rates = EmptyMap THEN "done" ELSE "fetched",
                   ok |-> FALSE, all_rates |-> all_rates,
                   sources |-> sources_used, timestamp |-> now,
                   hist |-> NoListFile]]
    /\ now' = now + 1
    /\ UNCHANGED <<users, portfolios, rates, history, session, last,
                   walletVars, dbVars, cache>>

\* run_update, line 93.
UpdSaveRates(p) ==
    /\ procs[p].pc = "fetched"
    /\ rates' = BuildSnapshot(procs[p].all_rates, procs[p].sources,
                              procs[p].timestamp)
    /\ procs' = [procs EXCEPT ![p].pc = "saved"]
    /\ UNCHANGED <<users, portfolios, history, session, now, last,
                   walletVars, dbVars, cache>>

\* _save_to_history, lines 118-142: the log is loaded and extended in memory.
UpdLoadHistory(p) ==
    /\ procs[p].pc = "saved"
    /\ procs' = [procs EXCEPT
          ![p].pc = "appended",
          ![p].hist = AppendHistory(history,
                          HistoryRecords(procs[p].all_rates, procs[p].sources,
                                         procs[p].timestamp))]
    /\ UNCHANGED <<appVars, walletVars, dbVars, cache>>

\* _save_to_history, line 146.
UpdSaveHistory(p) ==
    /\ procs[p].pc = "appended"
    /\ history' = procs[p].hist
    /\ procs' = [procs EXCEPT ![p].pc = "done", ![p].ok = TRUE]
    /\ UNCHANGED <<users, portfolios, rates, session, now, last,
                   walletVars, dbVars, cache>>

NextUpd ==
    \/ \E p \in UpdProcs : UpdFetch(p)
    \/ \E p \in UpdProcs : UpdSaveRates(p)
    \/ \E p \in UpdProcs : UpdLoadHistory(p)
    \/ \E p \in UpdProcs : UpdSaveHistory(p)
SpecUpd == InitUpd /\ [][NextUpd]_vars

(***************************************************************************)
(* SpecConc: two calls of buy_currency / sell_currency running at the same *)
(* time on the same data directory.  A call is cut at its accesses to      *)
(* portfolios.json; db.save is taken as one step here (SpecDb looks inside *)
(* it).  The code takes no lock.                                           *)
(***************************************************************************)
TradeProcs == {1, 2}
ConcCurrencies == {"EUR", "eur"}

TradeProcIdle ==
    [pc |-> "idle", op |-> "none", user |-> NoSession, currency |-> "",
     amount |-> Num(0), rate |-> Zero, out |-> TradeFail("", NoListFile, NoRatesFile)]

\* alice (1) and bob (2) are registered and each holds 1 EUR.
ConcUsers == ListFile(<<UserDict(1, "alice"), UserDict(2, "bob")>>)
ConcPortfolios ==
    ListFile(<<PortfolioDict(1, "EUR" :> 1), PortfolioDict(2, "EUR" :> 1)>>)
ConcRates ==
    Snapshot(PairKey("EUR", "USD") :> PairData(Frac(108, 100), 0, "ParserService"),
             0, "ParserService")

InitConc ==
    /\ users = ConcUsers
    /\ portfolios = ConcPortfolios
    /\ rates = ConcRates
    /\ history = NoListFile
    /\ session = NoSession /\ now = 0 /\ last = NoLast
    /\ procs = [p \in TradeProcs |-> TradeProcIdle]
    /\ WalletIdle /\ DbIdle /\ CacheIdle

\* Lines 242-292 / 386-437: validation, then the rate read from rates.json.
TradeBegin(p) ==
    /\ procs[p].pc = "idle"
    /\ \E op \in {"buy", "sell"}, user \in {1, 2},
          currency \in ConcCurrencies, n \in 1..MaxAmount :
          LET amount == Num(n)
              v      == ValidateTrade(user, currency, amount)
              table  == IF op = "buy" THEN BuyRatesTable(rates)
                                      ELSE SellRatesTable(rates)
              price  == TradeRate(get_currency(currency), table)
              err    == IF v # "ok" THEN v ELSE price.err
          IN  procs' = [procs EXCEPT ![p] =
                  [pc |-> IF err = "ok" THEN "priced" ELSE "done",
                   op |-> op, user |-> user, currency |-> currency,
                   amount |-> amount, rate |-> price.rate,
                   out |-> TradeFail(err, portfolios, rates)]]
    /\ UNCHANGED <<appVars, walletVars, dbVars, cache>>

\* Lines 295-336 / 440-475: db.load(PORTFOLIOS_FILE), the search for the
\* user's portfolio and the change of the wallet, all on the loaded copy.
TradeLoad(p) ==
    /\ procs[p].pc = "priced"
    /\ \E r \in {IF procs[p].op = "buy"
                  THEN BuyLoad(procs[p].user, procs[p].currency, procs[p].amount,
                               procs[p].rate, portfolios, rates)
                  ELSE SellLoad(procs[p].user, procs[p].currency, procs[p].amount,
                                procs[p].rate, portfolios, rates)} :
          /\ procs' = [procs EXCEPT ![p].pc = IF r.ok THEN "loaded" ELSE "done",
                                    ![p].out = r]
          \* a trade that stops here has written only what lines 306-311 save
          /\ portfolios' = IF r.ok THEN portfolios ELSE r.portfolios
          /\ rates' = r.rates
    /\ UNCHANGED <<users, history, session, now, last, walletVars, dbVars, cache>>

\* Lines 339-341 / 478-482: the loaded list, with this user's portfolio
\* replaced, is written back whole.
TradeSave(p) ==
    /\ procs[p].pc = "loaded"
    /\ portfolios' = procs[p].out.portfolios
    /\ procs' = [procs EXCEPT ![p].pc = "done"]
    /\ UNCHANGED <<users, rates, history, session, now, last, walletVars, dbVars, cache>>

NextConc ==
    \/ \E p \in TradeProcs : TradeBegin(p)
    \/ \E p \in TradeProcs : TradeLoad(p)
    \/ \E p \in TradeProcs : TradeSave(p)
SpecConc == InitConc /\ [][NextConc]_vars

(***************************************************************************)
(* SpecHist: updates run one a second on a history log that is nearly      *)
(* full.  The log starts with n records written before time 0, one a       *)
(* second, the first of them at -HISTORY_CAP.                              *)
(***************************************************************************)
SeedHistory(n) ==
    [i \in 1..n |->
        HistoryRecord(PairKey("BTC", "USD"), FracOfInt(2), <<"CoinGecko">>,
                      i - HISTORY_CAP - 1)]

InitHist ==
    /\ users = ListFile(<<>>)
    /\ portfolios = ListFile(<<>>)
    /\ rates = Snapshot(EmptyMap, 0 - RATES_TTL_SECONDS, "initial")
    /\ \E n \in (HISTORY_CAP - MaxHistSlack)..HISTORY_CAP :
          history = ListFile(SeedHistory(n))
    /\ session = NoSession /\ now = 0 /\ last = NoLast
    /\ WalletIdle /\ DbIdle /\ CacheIdle /\ ProcsIdle

\* update_rates(source); the next one is called a second later.
HistUpdate ==
    /\ now < MaxHistUpdates
    /\ \E source \in SourceInputs :
       \E crypto \in IF AsksCrypto(source) THEN CryptoOutcomes ELSE {FetchFail},
          fiat \in IF AsksFiat(source) THEN FiatOutcomes ELSE {FetchFail} :
           \E r \in {update_rates(source, crypto, fiat, rates, history, now)} :
               /\ rates' = r.rates
               /\ history' = r.history
               /\ last' = UpdateLast(source, r)
               /\ now' = now + 1
               /\ UNCHANGED <<users, portfolios, session, walletVars, dbVars, procs, cache>>

NextHist == HistUpdate
SpecHist == InitHist /\ [][NextHist]_vars


(***************************************************************************)
(* The cached fetch of an API client (parser_service/api_clients.py).      *)
(***************************************************************************)
\* cache_duration: BaseApiClient 300 s (CoinGeckoClient), and 3600 s for
\* ExchangeRateApiClient.
CacheDuration(client) == IF client = "CoinGecko" THEN 300 ELSE 3600

\* A freshness test that still serves a cache of exactly cache_duration.
IsCacheFresh_Inclusive(client, cf, t) ==
    cf.exists /\ t - cf.timestamp <= CacheDuration(client)

\* _get_cached_data returns the data (not None).
IsCacheFresh(client, cf, t) ==
    cf.exists /\ t - cf.timestamp < CacheDuration(client)

\* A fetch that never falls back to the cache.
CacheFallback_Never(cf) == FetchFail

\* Lines 69-76: after ApiRequestError the data under "rates", whatever its
\* timestamp; the error is raised again when the file has no "rates".
CacheFallback(cf) == IF cf.exists THEN FetchOk(cf.data) ELSE FetchFail

\* What the upstream source gives a client when it is called.
UpstreamOutcomes(client) ==
    IF client = "CoinGecko" THEN CryptoOutcomes ELSE FiatOutcomes

\* upstream: "none" (not called), "ok" or "fail".
CachedFetchResult(ok, data, upstream, cf) ==
    [ok |-> ok, rates |-> data, upstream |-> upstream, cache |-> cf]

\* fetch_rates_with_cache() of a client at time t; outcome is what
\* fetch_rates() gives if it is called.
fetch_rates_with_cache(client, outcome, cf, t) ==
    IF IsCacheFresh(client, cf, t)
    THEN CachedFetchResult(TRUE, cf.data, "none", cf)
    ELSE IF outcome.ok
    THEN CachedFetchResult(TRUE, outcome.rates, "ok",
             \* _save_to_cache only "if rates"
             IF outcome.rates # EmptyMap THEN CacheFile(t, outcome.rates) ELSE cf)
    ELSE CachedFetchResult(CacheFallback(cf).ok, CacheFallback(cf).rates,
                           "fail", cf)

(***************************************************************************)
(* SpecCache: cached fetches of the two clients and updates of all sources *)
(* at the instants where a cache_duration ends.                            *)
(***************************************************************************)
CacheTimes ==
    { t \in 0..MaxCacheClock :
        \/ t \in {0, MaxCacheClock}
        \/ \E c \in CacheClients : t \in {CacheDuration(c) - 1, CacheDuration(c)} }

InitCache ==
    /\ users = ListFile(<<>>)
    /\ portfolios = ListFile(<<>>)
    /\ rates = Snapshot(EmptyMap, 0, "initial")
    /\ history = ListFile(<<>>)
    /\ session = NoSession /\ now = 0 /\ last = NoLast
    /\ WalletIdle /\ DbIdle /\ CacheIdle /\ ProcsIdle

\* time.time() at the next call.
CacheTick ==
    /\ \E t \in CacheTimes : t > now /\ now' = t
    /\ UNCHANGED <<users, portfolios, rates, history, session, last,
                   walletVars, dbVars, procs, cache>>

FetchCached ==
    \E client \in CacheClients :
    \E outcome \in IF IsCacheFresh(client, cache[client], now)
                   THEN {FetchFail} ELSE UpstreamOutcomes(client) :
        \E r \in {fetch_rates_with_cache(client, outcome, cache[client], now)} :
            /\ cache' = [cache EXCEPT ![client] = r.cache]
            /\ last' = [op |-> "fetch_cached", client |-> client, ok |-> r.ok,
                        rates |-> r.rates, upstream |-> r.upstream]
            /\ UNCHANGED <<users, portfolios, rates, history, session, now,
                           walletVars, dbVars, procs>>

\* run_update() for all sources while the cache files are there and the
\* upstream call of at least one client fails.
CacheUpdate ==
    \E crypto \in CryptoOutcomes, fiat \in FiatOutcomes :
        \E r \in {update_rates("all", crypto, fiat, rates, history, now)} :
            /\ ~crypto.ok \/ ~fiat.ok
            /\ Len(r.history.items) <= MaxHistory
            /\ rates' = r.rates
            /\ history' = r.history
            /\ last' = UpdateLast("all", r)
            /\ UNCHANGED <<users, portfolios, session, now, walletVars, dbVars,
                           procs, cache>>

NextCache == CacheTick \/ FetchCached \/ CacheUpdate
SpecCache == InitCache /\ [][NextCache]_vars


(***************************************************************************)
(* Valuation: Portfolio.get_total_value (core/models.py) and               *)
(* show_user_portfolio (core/usecases.py).                                 *)
(***************************************************************************)
FracAdd(a, b) == Norm(<<a[1] * b[2] + b[1] * a[2], a[2] * b[2]>>)

\* round(x, 2) of a non-negative x: to the nearest hundredth, a tie to the
\* even one.
Round2(a) ==
    LET n  == 100 * a[1]
        f  == n \div a[2]
        r  == n % a[2]
        up == 2 * r > a[2] \/ (2 * r = a[2] /\ f % 2 = 1)
    IN  Frac(IF up THEN f + 1 ELSE f, 100)

RECURSIVE FracSum(_, _)
FracSum(f, keys) ==
    IF keys = {} THEN Zero
    ELSE LET k == CHOOSE x \in keys : TRUE
         IN  FracAdd(f[k], FracSum(f, keys \ {k}))

\* Lines 262-286 of get_total_value: the rate of one wallet into
\* base_currency, Zero when the wallet is skipped.  pairs is the "pairs" of
\* rates.json, {} when the file has none; the direct pair is taken when it
\* is stored, whatever its rate, and the reverse pair only otherwise.
WalletRate(currency_code, base_currency, rf) ==
    LET pairs       == IF rf.exists /\ rf.fmt = "pairs" THEN rf.pairs ELSE EmptyMap
        rate_key    == PairKey(currency_code, base_currency)
        reverse_key == PairKey(base_currency, currency_code)
    IN  IF currency_code = base_currency THEN One
        ELSE IF rate_key \in DOMAIN pairs THEN pairs[rate_key].rate
        ELSE IF reverse_key \in DOMAIN pairs
        THEN IF ~IsZero(pairs[reverse_key].rate)
             THEN FracInv(pairs[reverse_key].rate) ELSE Zero
        ELSE Zero

\* Portfolio.get_total_value(base_currency) over the wallets of a portfolio:
\* the rounded total and the wallets that were skipped.
get_total_value(wallets, base_currency, rf) ==
    LET value == [c \in DOMAIN wallets |->
                    FracMul(FracOfInt(wallets[c]),
                            WalletRate(c, base_currency, rf))]
    IN  [total   |-> Round2(FracSum(value, DOMAIN wallets)),
         skipped |-> {c \in DOMAIN wallets :
                         IsZero(WalletRate(c, base_currency, rf))}]

\* What show_user_portfolio gives back: kind "dict" is the result record
\* ({"success", "message"}), kind "str" a bare message returned from inside
\* the loop, kind "raise" an exception leaving the function.  lines is the
\* value printed for each listed wallet, total the sum under "ИТОГО".
ShowResult(kind, success, err, lines, total) ==
    [kind |-> kind, success |-> success, err |-> err, lines |-> lines,
     total |-> total]

\* Lines 189-196: the table given to convert_rates.  The rates of a file
\* with "pairs", the file itself without.
ExchangeRatesLoaded(rf) ==
    rf.exists /\ (rf.fmt = "flat" \/ DOMAIN rf.pairs # {})

\* Lines 206-224: the loop over the wallets in the order of the dict.  The
\* first wallet whose conversion gives 0 ends the function with the message
\* of convert_rates; an exception of convert_rates is not caught.
RECURSIVE ShowLoop(_, _, _, _, _, _)
ShowLoop(order, i, wallets, base_currency, rf, acc) ==
    IF i > Len(order)
    THEN ShowResult("dict", TRUE, "ok", acc,
                    FracSum(acc, DOMAIN acc))
    ELSE LET currency == order[i]
             balance  == FracOfInt(wallets[currency])
             result   == convert_rates(currency, base_currency, rf)
         IN  IF currency = base_currency
             THEN ShowLoop(order, i + 1, wallets, base_currency, rf,
                           Put(acc, currency, balance))
             ELSE IF result.err \in {"CurrencyNotFoundError", "TypeError",
                                     "ZeroDivisionError"}
             THEN ShowResult("raise", FALSE, result.err, EmptyMap, Zero)
             ELSE IF IsZero(result.rate)
             THEN ShowResult("str", FALSE, "NotFound", EmptyMap, Zero)
             ELSE ShowLoop(order, i + 1, wallets, base_currency, rf,
                           Put(acc, currency, FracMul(balance, result.rate)))

\* show_user_portfolio(session_data, base_currency); order is the order of
\* the keys in the "wallets" dict of the stored portfolio.
show_user_portfolio(session_data, base_currency, order, pf, rf) ==
    LET idx     == FindPortfolio(pf.items, session_data)
        wallets == pf.items[idx].wallets
    IN  IF session_data = NoSession
        THEN ShowResult("dict", FALSE, "NotLoggedIn", EmptyMap, Zero)
        ELSE IF idx = 0
        THEN ShowResult("dict", FALSE, "NoPortfolio", EmptyMap, Zero)
        ELSE IF DOMAIN wallets = {}
        THEN ShowResult("dict", TRUE, "empty", EmptyMap, Zero)
        ELSE IF ~ExchangeRatesLoaded(rf)
        THEN ShowResult("dict", FALSE, "RatesNotLoaded", EmptyMap, Zero)
        ELSE ShowLoop(order, 1, wallets, base_currency, rf, EmptyMap)

(***************************************************************************)
(* SpecValue: the portfolio of one logged-in user valued over any          *)
(* snapshot of rates.json.                                                 *)
(***************************************************************************)
\* A wallet is missing or holds 1..MaxValueBalance.
WalletMaps ==
    UNION { [held -> 1..MaxValueBalance] : held \in SUBSET SupportedCodes }

\* The orders a dict with these keys can have.
KeyOrders(keys) ==
    { s \in [1..Cardinality(keys) -> keys] :
        \A i, j \in 1..Cardinality(keys) : s[i] = s[j] => i = j }

ValueStores == RateStores \cup {DefaultRates}

InitValue ==
    /\ users = ListFile(<<UserDict(1, "alice")>>)
    /\ \E w \in WalletMaps : portfolios = ListFile(<<PortfolioDict(1, w)>>)
    /\ rates \in ValueStores
    /\ history = NoListFile
    /\ session = 1 /\ now = 0 /\ last = NoLast
    /\ WalletIdle /\ DbIdle /\ CacheIdle /\ ProcsIdle

\* Portfolio.from_dict(...).get_total_value(base_currency): building the
\* Portfolio writes the default rates when rates.json is missing.
GetTotalValue ==
    \E base_currency \in SupportedCodes :
        LET idx == FindPortfolio(portfolios.items, session)
            rf  == Portfolio_load_exchange_rates(rates)
        IN  /\ idx # 0
            /\ \E r \in {get_total_value(portfolios.items[idx].wallets,
                                         base_currency, rf)} :
                   /\ rates' = rf
                   /\ last' = [op |-> "get_total_value", base |-> base_currency,
                               total |-> r.total, skipped |-> r.skipped]
            /\ UNCHANGED <<users, portfolios, history, session, now,
                           walletVars, dbVars, procs, cache>>

\* main.py, show-portfolio: reads only.
ShowPortfolio ==
    \E base_currency \in SupportedCodes :
        LET idx == FindPortfolio(portfolios.items, session)
        IN  /\ idx # 0
            /\ \E order \in KeyOrders(DOMAIN portfolios.items[idx].wallets) :
               \E r \in {show_user_portfolio(session, base_currency, order,
                                             portfolios, rates)} :
                   last' = [op |-> "show_portfolio", base |-> base_currency,
                            kind |-> r.kind, success |-> r.success,
                            err |-> r.err, lines |-> r.lines, total |-> r.total]
            /\ UNCHANGED <<users, portfolios, rates, history, session, now,
                           walletVars, dbVars, procs, cache>>

NextValue == GetTotalValue \/ ShowPortfolio
SpecValue == InitValue /\ [][NextValue]_vars

(***************************************************************************)
(* SpecSession: a trading session at the CLI with EUR_USD stored at 1.08:  *)
(* register, login, logout, buys of 10 and sells of 5 or 6.                *)
(***************************************************************************)
SessionRates ==
    Snapshot(PairKey("EUR", "USD") :> PairData(Frac(108, 100), 0, "ParserService"),
             0, "ParserService")
SessionBuys  == {Num(10)}
SessionSells == {Num(5), Num(6)}

InitSession ==
    /\ AppInit /\ rates = SessionRates
    /\ WalletIdle /\ DbIdle /\ CacheIdle /\ ProcsIdle

SessionBuy ==
    \E currency \in {"EUR", "USD"}, amount \in SessionBuys :
        \E r \in {buy_currency(session, currency, amount, portfolios, rates)} :
            /\ r.ok => TotalHeld(r.portfolios) <= MaxSessionHolding
            /\ portfolios' = r.portfolios
            /\ rates' = r.rates
            /\ last' = TradeLast("buy", session, currency, amount, r)
            /\ UNCHANGED <<users, history, session, now, walletVars, dbVars, procs, cache>>

SessionSell ==
    \E currency \in {"EUR", "USD"}, amount \in SessionSells :
        \E r \in {sell_currency(session, currency, amount, portfolios, rates)} :
            /\ portfolios' = r.portfolios
            /\ rates' = r.rates
            /\ last' = TradeLast("sell", session, currency, amount, r)
            /\ UNCHANGED <<users, history, session, now, walletVars, dbVars, procs, cache>>

NextSession == Register \/ Login \/ Logout \/ SessionBuy \/ SessionSell
SpecSession == InitSession /\ [][NextSession]_vars

(***************************************************************************)
(* SpecOrphan: the CLI started on stores in which a registered user has no *)
(* portfolio record, as a registration leaves them when portfolios.json    *)
(* is missing and initialize_files creates it at the next start.           *)
(***************************************************************************)
OrphanPortfolios ==
    { NoListFile, ListFile(<<>>),
      ListFile(<<PortfolioDict(2, EmptyMap)>>),
      ListFile(<<PortfolioDict(2, "EUR" :> 1)>>) }

InitOrphan ==
    /\ users = ListFile(<<UserDict(1, "alice"), UserDict(2, "bob")>>)
    /\ portfolios \in OrphanPortfolios
    /\ rates \in LedgerRates
    /\ history = NoListFile
    /\ session = NoSession /\ now = 0 /\ last = NoLast
    /\ WalletIdle /\ DbIdle /\ CacheIdle /\ ProcsIdle

NextOrphan == Login \/ Logout \/ Buy \/ Sell
SpecOrphan == InitOrphan /\ [][NextOrphan]_vars

(***************************************************************************)
(* SpecSched: parser_service/scheduler.py, RateScheduler.  start() and     *)
(* stop() are called from the main thread, _run is the daemon thread; the  *)
(* loop is cut at its test of self.running, at the return of time.sleep    *)
(* and at the update.  procs holds self.running and the place of the loop. *)
(***************************************************************************)
SCHEDULER_INTERVAL_HOURS == 6

\* __init__, line 9: the interval in seconds.
SchedulerInterval(interval_hours) == interval_hours * 3600

\* started counts the updates begun by the loop, stopped is TRUE once
\* stop() has returned.
SchedState(pc, running, started, stopped) ==
    [pc |-> pc, running |-> running, started |-> started, stopped |-> stopped]

InitSched ==
    /\ users = ListFile(<<>>)
    /\ portfolios = ListFile(<<>>)
    /\ rates = Snapshot(EmptyMap, 0, "initial")
    /\ history = ListFile(<<>>)
    /\ session = NoSession /\ now = 0 /\ last = NoLast
    /\ procs = SchedState("new", FALSE, 0, FALSE)
    /\ WalletIdle /\ DbIdle /\ CacheIdle

\* The update of the scheduler's updater at the present time.
SchedUpdate ==
    \E crypto \in CryptoOutcomes, fiat \in FiatOutcomes :
        \E r \in {update_rates(ExchangeRateUpdater_update_rates, crypto, fiat,
                               rates, history, now)} :
            /\ rates' = r.rates
            /\ history' = r.history
            /\ last' = UpdateLast(ExchangeRateUpdater_update_rates, r)

\* start(), lines 15-24: running is set, the rates are updated at once and
\* the thread is started.
SchedStart ==
    /\ procs.pc = "new"
    /\ SchedUpdate
    /\ procs' = [procs EXCEPT !.pc = "check", !.running = TRUE]
    /\ UNCHANGED <<users, portfolios, session, now, walletVars, dbVars, cache>>

\* _run, line 28: while self.running.
LoopCheck ==
    /\ procs.pc = "check"
    /\ procs.running => procs.started < MaxSchedUpdates
    /\ procs' = [procs EXCEPT !.pc = IF procs.running THEN "sleeping" ELSE "exited"]
    /\ UNCHANGED <<appVars, walletVars, dbVars, cache>>

\* _run, line 29: time.sleep(self.interval) returns.
LoopWake ==
    /\ procs.pc = "sleeping"
    /\ procs' = [procs EXCEPT !.pc = "woken"]
    /\ now' = now + SchedulerInterval(SCHEDULER_INTERVAL_HOURS)
    /\ UNCHANGED <<users, portfolios, rates, history, session, last,
                   walletVars, dbVars, cache>>

\* _run, line 30: self.updater.update_rates().
LoopUpdate ==
    /\ procs.pc = "woken"
    /\ SchedUpdate
    /\ procs' = [procs EXCEPT !.pc = "check", !.started = procs.started + 1]
    /\ UNCHANGED <<users, portfolios, session, now, walletVars, dbVars, cache>>

\* stop(), lines 32-35.
SchedStop ==
    /\ procs.pc # "new" /\ ~procs.stopped
    /\ procs' = [procs EXCEPT !.running = FALSE, !.stopped = TRUE]
    /\ UNCHANGED <<appVars, walletVars, dbVars, cache>>

NextSched == SchedStart \/ LoopCheck \/ LoopWake \/ LoopUpdate \/ SchedStop
SpecSched == InitSched /\ [][NextSched]_vars

(***************************************************************************)
(* Claims                                                                  *)
(***************************************************************************)
\* The wallets of user_id in a portfolios file (empty when it has none).
WalletsOf(pf, user_id) ==
    LET i == FindPortfolio(pf.items, user_id)
    IN  IF i = 0 THEN EmptyMap ELSE pf.items[i].wallets

\* Every portfolio of the list except that of user_id is the same in both.
OthersUnchanged(pf, pf2, user_id) ==
    /\ Len(pf2.items) = Len(pf.items)
    /\ \A j \in 1..Len(pf.items) :
          /\ pf2.items[j].user_id = pf.items[j].user_id
          /\ pf.items[j].user_id # user_id => pf2.items[j] = pf.items[j]

ValidationErrors ==
    {"NotLoggedIn", "NotANumber", "InvalidAmountError", "CurrencyNotFoundError"}

\* C1 (SpecWallet): through any sequence of deposit and withdraw calls on a
\* wallet whose balance starts non-negative the balance is never negative,
\* and a withdraw of more than the balance raises InsufficientFundsError and
\* leaves the balance as it was.
C1_BalanceNeverNegative ==
    /\ wallet.balance >= 0
    /\ (wres.op = "withdraw" /\ wres.amount.isnum /\ wres.amount.v > wres.before)
          => (wres.err = "InsufficientFundsError" /\ wallet.balance = wres.before)

\* C1 witness: a withdraw of more than a positive balance was refused.
C1_Witness ==
    /\ wres.op = "withdraw" /\ wres.amount.isnum
    /\ wres.before > 0 /\ wres.amount.v > wres.before
    /\ wres.err = "InsufficientFundsError"

\* C2 (SpecDb): a load that runs while one save of new content over the
\* complete content old is in progress returns old or new, never {}.
C2_ConcurrentLoadSeesOldOrNew ==
    (/\ loader.pc = "done" /\ loader.mode = "during"
     /\ loader.ctx.old # 0 /\ loader.endctx = loader.ctx)
        => loader.result \in {loader.ctx.old, loader.ctx.new}

\* C3 (SpecDb): after the process died inside a save of new content over
\* the complete content old, the next load returns old or new, never {}.
C3_LoadAfterCrashSeesOldOrNew ==
    (/\ loader.pc = "done" /\ loader.mode = "aftercrash"
     /\ loader.ctx.old # 0 /\ saver.pc = "idle" /\ saver.crash = loader.ctx)
        => loader.result \in {loader.ctx.old, loader.ctx.new}

\* C7 (Spec): a successful buy of amount a under the wallet key C gives the
\* buyer's portfolio the wallet C with balance a when it had none, and the
\* old balance plus a otherwise; the buyer's other wallets and every other
\* portfolio stay as they were.
C7_BuyCreatesOrDeposits ==
    [][ (last'.op = "buy" /\ last'.ok) =>
          LET c   == last'.currency
              a   == last'.amount.v
              old == WalletsOf(portfolios, last'.user)
              new == WalletsOf(portfolios', last'.user)
          IN  /\ FindPortfolio(portfolios.items, last'.user) # 0
              /\ OthersUnchanged(portfolios, portfolios', last'.user)
              /\ DOMAIN new = (DOMAIN old) \cup {c}
              /\ new[c] = IF c \in DOMAIN old THEN old[c] + a ELSE a
              /\ \A k \in (DOMAIN old) \ {c} : new[k] = old[k] ]_vars

\* C7 witness: a buy has raised an existing balance while another user
\* holds a wallet.
C7_Witness ==
    /\ last.op = "buy" /\ last.ok
    /\ last.old_balance > 0
    /\ last.new_balance = last.old_balance + last.amount.v
    /\ Len(portfolios.items) = 2
    /\ \E j \in 1..2 : /\ portfolios.items[j].user_id # last.user
                       /\ DOMAIN portfolios.items[j].wallets # {}
    /\ Cardinality(DOMAIN WalletsOf(portfolios, last.user)) >= 2

\* C8 (Spec): a sell that reaches the wallet succeeds only on a wallet that
\* exists with balance >= a and then leaves balance - a (0 when a equals
\* the balance); it is refused for missing funds only when the balance is
\* strictly less than a, reporting both amounts, and for a missing wallet
\* only when there is none; a refused sell leaves portfolios.json as it was.
C8_SellRequiresFunds ==
    [][ (last'.op = "sell") =>
          LET c   == last'.currency
              old == WalletsOf(portfolios, session)
              new == WalletsOf(portfolios', session)
          IN  /\ last'.ok =>
                    /\ c \in DOMAIN old /\ old[c] >= last'.amount.v
                    /\ new[c] = old[c] - last'.amount.v
                    /\ (old[c] = last'.amount.v => new[c] = 0)
              /\ last'.err = "InsufficientFundsError" =>
                    /\ c \in DOMAIN old
                    /\ last'.available = old[c]
                    /\ last'.available < last'.required
              /\ last'.err = "NoWallet" => c \notin DOMAIN old
              /\ ~last'.ok => portfolios' = portfolios ]_vars

\* C8 witness: a sell of the whole balance has succeeded and left 0.
C8_Witness ==
    /\ last.op = "sell" /\ last.ok
    /\ last.old_balance = last.amount.v /\ last.new_balance = 0
    /\ WalletsOf(portfolios, last.user)[last.currency] = 0

\* C9 (Spec): a buy or sell rejected at validation (no session, amount not a
\* number, amount <= 0, unknown currency code) writes none of the files.
C9_RejectedTradeWritesNothing ==
    [][ (last'.op \in {"buy", "sell"} /\ last'.err \in ValidationErrors)
          => UNCHANGED <<users, portfolios, rates, history>> ]_vars

\* C9 witness: a logged-in user's trade was rejected at validation while
\* portfolios.json holds a positive balance.
C9_Witness ==
    /\ last.op \in {"buy", "sell"} /\ last.err \in ValidationErrors
    /\ session # NoSession
    /\ TotalHeld(portfolios) > 0

\* What the finished trade of process p added to the wallet key of user_id.
TradeDelta(p, user_id, key) ==
    IF /\ procs[p].pc = "done" /\ procs[p].out.ok
       /\ procs[p].user = user_id /\ procs[p].currency = key
    THEN IF procs[p].op = "buy" THEN procs[p].amount.v ELSE 0 - procs[p].amount.v
    ELSE 0

BalanceOf(pf, user_id, key) ==
    IF key \in DOMAIN WalletsOf(pf, user_id) THEN WalletsOf(pf, user_id)[key] ELSE 0

BothTradesDone == \A p \in TradeProcs : procs[p].pc = "done"

\* C4 (SpecConc): when two trades of the same user have both completed, each
\* of the user's persisted balances is the initial balance plus what the
\* two trades did to it: no update is lost.
C4_SameUserNoLostUpdate ==
    (BothTradesDone /\ procs[1].user = procs[2].user) =>
        \A key \in ConcCurrencies :
            BalanceOf(portfolios, procs[1].user, key)
                = BalanceOf(ConcPortfolios, procs[1].user, key)
                  + TradeDelta(1, procs[1].user, key)
                  + TradeDelta(2, procs[1].user, key)

\* C5 (SpecConc): when two trades of different users have both completed,
\* each user's persisted portfolio shows that user's own trade: neither
\* trade has overwritten the other's portfolio.
C5_DifferentUsersBothPersisted ==
    (BothTradesDone /\ procs[1].user # procs[2].user) =>
        \A p \in TradeProcs : \A key \in ConcCurrencies :
            BalanceOf(portfolios, procs[p].user, key)
                = BalanceOf(ConcPortfolios, procs[p].user, key)
                  + TradeDelta(p, procs[p].user, key)

\* The records the update of process p appends to the log.
RecordsOf(p) ==
    HistoryRecords(procs[p].all_rates, procs[p].sources, procs[p].timestamp)

InLog(rec) == \E i \in 1..Len(history.items) : history.items[i] = rec

BothUpdatesDone == \A p \in UpdProcs : procs[p].pc = "done" /\ procs[p].ok

\* C6 (SpecUpd): when the timer's update and the query's update have both
\* completed, every record either of them appended is in the history log
\* and rates.json is the whole snapshot written by one of them.
C6_UpdatesSerialized ==
    BothUpdatesDone =>
        /\ \A p \in UpdProcs :
              \A i \in 1..Len(RecordsOf(p)) : InLog(RecordsOf(p)[i])
        /\ \E p \in UpdProcs :
              rates = BuildSnapshot(procs[p].all_rates, procs[p].sources,
                                    procs[p].timestamp)

\* Whether a strategy of the rate query has a usable rate in the table.
DirectPresent(f, g, table)  == PairKey(f, g) \in DOMAIN table
ReverseApplies(f, g, table) ==
    PairKey(g, f) \in DOMAIN table /\ ~IsZero(table[PairKey(g, f)].rate)
BridgeApplies(f, g, table) ==
    /\ PairKey(f, DEFAULT_BASE_CURRENCY) \in DOMAIN table
    /\ PairKey(g, DEFAULT_BASE_CURRENCY) \in DOMAIN table
    /\ ~IsZero(table[PairKey(f, DEFAULT_BASE_CURRENCY)].rate)
    /\ ~IsZero(table[PairKey(g, DEFAULT_BASE_CURRENCY)].rate)

Usable(k, table) == k \in DOMAIN table /\ ~IsZero(table[k].rate)

C12_SameCurrencyIsOne ==
    \A x \in RateCodeInputs \ {""}, y \in RateCodeInputs :
        Upper(x) = Upper(y) =>
            \A crypto \in CryptoOutcomes, fiat \in FiatOutcomes :
                LET r == get_exchange_rate(x, y, crypto, fiat, rates, history, now)
                IN  /\ r.ok /\ r.rate = One
                    /\ r.rates = rates /\ r.history = history

\* C12 witness: a same-currency query was answered with 1 while the stored
\* snapshot is stale and no update has ever run.
C12_Witness ==
    /\ last.op = "get_rate" /\ last.ok
    /\ last.from = last.to /\ last.rate = One
    /\ IsStale(rates, now) /\ history = NoListFile

\* C13 (SpecRate): derived rates have the stated values.  A query answered
\* from the reverse pair (no direct pair stored) gives r with
\* r * rate(TO_FROM) = 1; a query answered through the base currency (neither
\* direct nor reverse pair stored) gives r with r * rate(TO_USD) =
\* rate(FROM_USD), i.e. r = rate(FROM_USD) / rate(TO_USD); a conversion for a
\* listing gives the same quotient, a side in the base currency counting as
\* rate 1.
C13_DerivedRateValues ==
    LET f == last.from  g == last.to  table == rates.pairs
        B == DEFAULT_BASE_CURRENCY
        BaseRate(c) == IF c = B THEN One ELSE table[PairKey(c, B)].rate
    IN  /\ (/\ last.op = "get_rate" /\ last.ok /\ f # g
            /\ ~DirectPresent(f, g, table)) =>
               IF ReverseApplies(f, g, table)
               THEN FracMul(last.rate, table[PairKey(g, f)].rate) = One
               ELSE /\ BridgeApplies(f, g, table)
                    /\ FracMul(last.rate, table[PairKey(g, B)].rate)
                         = table[PairKey(f, B)].rate
        /\ (last.op = "convert" /\ last.ok) =>
               FracMul(last.rate, BaseRate(g)) = BaseRate(f)

\* C13 witness: EUR_USD = 2 and BTC_USD = 4 are stored, neither EUR_BTC nor
\* BTC_EUR is, and the query EUR -> BTC was answered 1/2.
C13_Witness ==
    /\ last.op = "get_rate" /\ last.ok
    /\ last.from = "EUR" /\ last.to = "BTC" /\ last.rate = Frac(1, 2)
    /\ PairKey("EUR", "BTC") \notin DOMAIN rates.pairs
    /\ PairKey("BTC", "EUR") \notin DOMAIN rates.pairs
    /\ rates.pairs[PairKey("EUR", "USD")].rate = FracOfInt(2)
    /\ rates.pairs[PairKey("BTC", "USD")].rate = FracOfInt(4)

\* C14 (Spec): a trade is priced with the rate the resolver gives for
\* (currency, USD): whenever the resolver yields a rate for a traded
\* currency other than USD, by the direct pair, the reverse pair or the
\* bridge, the buy or sell is not refused for a missing rate, and when it
\* succeeds its rate is the resolver's.
C14_TradePricedByResolver ==
    [][ (/\ last'.op \in {"buy", "sell"}
         /\ last'.ok \/ last'.err = "ApiRequestError"
         /\ get_currency(last'.currency) # DEFAULT_BASE_CURRENCY
         /\ ResolveRate(get_currency(last'.currency), DEFAULT_BASE_CURRENCY,
                        rates).err = "ok")
          => /\ last'.ok
             /\ last'.rate = ResolveRate(get_currency(last'.currency),
                                         DEFAULT_BASE_CURRENCY, rates).rate ]_vars

\* rates.json holds the pair CODE_USD with a rate above 0.
StoredTradeRate(code, rf) ==
    /\ rf.exists
    /\ PairKey(code, DEFAULT_BASE_CURRENCY) \in DOMAIN rf.pairs
    /\ rf.pairs[PairKey(code, DEFAULT_BASE_CURRENCY)].rate[1] > 0

\* C15 (Spec): in every state of the ledger and for every buy or sell that
\* could be issued in it: when rates.json holds no rate above 0 for
\* (currency, USD) the trade fails and portfolios.json stays as it is; a
\* trade refused for a missing rate writes no file; a successful trade of a
\* currency other than USD is priced with the rate stored for CODE_USD, never
\* with another value; and a trade of USD is never refused for a missing rate
\* and, when it succeeds, has rate exactly 1, whatever rates.json holds.
C15_NoRateNoTrade ==
    \A currency \in CurrencyInputs, amount \in AmountInputs :
        \A r \in {buy_currency(session, currency, amount, portfolios, rates),
                  sell_currency(session, currency, amount, portfolios, rates)} :
            LET code == get_currency(currency)
                B    == DEFAULT_BASE_CURRENCY
            IN  /\ (code \notin {"", B} /\ ~StoredTradeRate(code, rates)) =>
                      ~r.ok /\ r.portfolios = portfolios
                /\ r.err = "ApiRequestError" =>
                      r.portfolios = portfolios /\ r.rates = rates /\ code # B
                /\ (r.ok /\ code # B) =>
                      /\ StoredTradeRate(code, rates)
                      /\ r.rate = rates.pairs[PairKey(code, B)].rate
                /\ (r.ok /\ code = B) => r.rate = One

\* C15 witness: a logged-in user who holds a balance had a trade of EUR
\* refused for a missing rate.
C15_Witness ==
    /\ last.op \in {"buy", "sell"} /\ last.err = "ApiRequestError"
    /\ last.currency = "EUR"
    /\ ~StoredTradeRate("EUR", rates)
    /\ session # NoSession /\ TotalHeld(portfolios) > 0

\* C16 (SpecRate): in every state of the store, an update of all sources in
\* which one client gives n > 0 rates and the other fails succeeds with
\* rates_count = n, exactly one entry in errors (the failed client's) and
\* sources listing only the client that gave rates, and rates.json then
\* holds exactly that client's pairs at its rates.
C16_PartialFailureSucceeds ==
    \A crypto \in CryptoOutcomes, fiat \in FiatOutcomes :
        LET r      == update_rates("all", crypto, fiat, rates, history, now)
            good   == IF crypto.ok THEN crypto ELSE fiat
            winner == IF crypto.ok THEN "CoinGecko" ELSE "ExchangeRate-API"
            loser  == IF crypto.ok THEN "ExchangeRate-API" ELSE "CoinGecko"
        IN  (crypto.ok # fiat.ok /\ good.rates # EmptyMap) =>
                /\ r.ok
                /\ r.rates_count = Cardinality(DOMAIN good.rates)
                /\ r.errors = <<loser>>
                /\ r.sources = <<winner>>
                /\ r.rates.exists
                /\ DOMAIN r.rates.pairs = DOMAIN good.rates
                /\ \A k \in DOMAIN good.rates : r.rates.pairs[k].rate = good.rates[k]

\* C16 witness: an update in which only CoinGecko answered has succeeded
\* with one rate and one error, and rates.json holds BTC_USD = 4.
C16_Witness ==
    /\ last.op = "update_rates" /\ last.ok
    /\ last.rates_count = 1 /\ Len(last.errors) = 1
    /\ last.sources = <<"CoinGecko">>
    /\ DOMAIN rates.pairs = {PairKey("BTC", "USD")}
    /\ rates.pairs[PairKey("BTC", "USD")].rate = FracOfInt(4)

\* The error entry e names the source s: a client's entry stands for that
\* client's own message; the message of line 74 names no source.
NamesSource(e, s) == e = s

\* C17 (SpecRate): an update in which every selected client fails ends with
\* a single error, and that error names every source that failed.
C17_TotalFailureNamesSources ==
    \A source \in {"all", "coingecko", "exchangerate"} :
        LET r == update_rates(source, FetchFail, FetchFail, rates, history, now)
            failed == (IF AsksCrypto(source) THEN {"CoinGecko"} ELSE {})
                      \cup (IF AsksFiat(source) THEN {"ExchangeRate-API"} ELSE {})
        IN  /\ ~r.ok
            /\ Len(r.errors) = 1
            /\ \A s \in failed : NamesSource(r.errors[1], s)

\* The updates that can be asked for in a state, with what the clients give.
UpdateCalls ==
    { update_rates(source, crypto, fiat, rates, history, now) :
        source \in SourceInputs, crypto \in CryptoOutcomes, fiat \in FiatOutcomes }

\* C18 as stated (SpecRate): an update that fails leaves rates.json and the
\* history log exactly as they were before the call.
C18_FailedUpdateChangesNothing ==
    \A r \in UpdateCalls :
        ~r.ok => r.rates = rates /\ r.history = history

\* C18 amended (SpecRate): an update that fails leaves an existing rates.json
\* (pairs, last_refresh, source) exactly as it was and the records of the
\* history log as they were; a missing rates.json is created as the empty
\* snapshot stamped with the time of the call and source "initial", and a
\* missing history file is created as the empty list.
C18_FailedUpdateKeepsSnapshot ==
    \A r \in UpdateCalls :
        ~r.ok =>
            /\ rates.exists => r.rates = rates
            /\ ~rates.exists => r.rates = Snapshot(EmptyMap, now, "initial")
            /\ r.history.items = history.items
            /\ history.exists => r.history = history
            /\ r.history.exists

\* C18 witness: an update has failed while rates.json holds pairs and the
\* history log holds records, both written by an earlier update.
C18_Witness ==
    /\ last.op = "update_rates" /\ ~last.ok
    /\ rates.exists /\ rates.pairs # EmptyMap
    /\ rates.source \in {"CoinGecko", "ExchangeRate-API"}
    /\ Len(history.items) > 0

\* C19 (SpecRate): in every state of the store, when an update that succeeds
\* is run again, at once or a second later, with the same source selection
\* and the same data from the clients, the second run succeeds and stores
\* the same pairs at the same rates with the same sources; it changes only
\* last_refresh and the pairs' updated_at, which become the time of the
\* second run, and it appends its records to the history log, which keeps
\* the records of the first run before them.
C19_ReplayKeepsRates ==
    \A source \in SourceInputs, crypto \in CryptoOutcomes, fiat \in FiatOutcomes,
       t2 \in {now, now + 1} :
        LET r1 == run_update(source, crypto, fiat, rates, history, now)
            r2 == run_update(source, crypto, fiat, r1.rates, r1.history, t2)
            n1 == Len(r1.history.items)
        IN  r1.ok =>
              /\ r2.ok
              /\ r2.rates_count = r1.rates_count /\ r2.sources = r1.sources
              /\ DOMAIN r2.rates.pairs = DOMAIN r1.rates.pairs
              /\ \A k \in DOMAIN r1.rates.pairs :
                    r2.rates.pairs[k] =
                        [r1.rates.pairs[k] EXCEPT !.updated_at = t2]
              /\ r2.rates = [r1.rates EXCEPT !.pairs = r2.rates.pairs,
                                              !.last_refresh = t2]
              /\ Len(r2.history.items) >= n1
              /\ SubSeq(r2.history.items, 1, n1) = r1.history.items

\* C19 witness: two updates with the same data have run 300 or more seconds
\* apart: the log holds two records of one pair at one rate with different
\* timestamps, and rates.json carries that rate stamped by the second run.
C19_Witness ==
    /\ last.op = "update_rates" /\ last.ok
    /\ Len(history.items) = 2
    /\ history.items[1].from_currency = history.items[2].from_currency
    /\ history.items[1].rate = history.items[2].rate
    /\ history.items[1].timestamp < history.items[2].timestamp
    /\ rates.last_refresh = history.items[2].timestamp
    /\ rates.pairs[PairKey(history.items[2].from_currency, "USD")].rate
          = history.items[1].rate

\* HISTORY_CAP + MaxHistExtra records, one a second from time 1.
SequentialRecords ==
    [i \in 1..(HISTORY_CAP + MaxHistExtra) |->
        HistoryRecord(PairKey("BTC", "USD"), FracOfInt(i), <<"CoinGecko">>, i)]

\* C20 (SpecHist): after every update the history log holds at most 1000
\* records.  An update that stores k pairs appends k records stamped with
\* the time of the update; when that would make more than 1000, the d
\* records in excess are dropped from the front, so the log is the old log
\* without its d oldest records, in the old order, followed by the k new
\* ones; a failed update leaves the records as they were.  Appending 1005
\* records to an empty log leaves the last 1000 of them.
C20_HistoryCapped ==
    [][ last'.op = "update_rates" =>
          LET old == history.items
              new == history'.items
              k   == IF last'.ok THEN last'.rates_count ELSE 0
              d   == IF Len(old) + k > HISTORY_CAP
                     THEN Len(old) + k - HISTORY_CAP ELSE 0
          IN  /\ Len(new) <= HISTORY_CAP
              /\ Len(new) = Len(old) + k - d
              /\ SubSeq(new, 1, Len(new) - k) = SubSeq(old, d + 1, Len(old))
              /\ \A i \in (Len(new) - k + 1)..Len(new) : new[i].timestamp = now
              /\ AppendHistory(ListFile(<<>>), SequentialRecords).items
                   = SubSeq(SequentialRecords, MaxHistExtra + 1,
                            HISTORY_CAP + MaxHistExtra) ]_vars

\* C20 witness: an update has filled the log to 1000 records and the oldest
\* record of the starting log is gone.
C20_Witness ==
    /\ last.op = "update_rates" /\ last.ok
    /\ Len(history.items) = HISTORY_CAP
    /\ history.items[1].timestamp > 0 - HISTORY_CAP
    /\ history.items[1].timestamp < 0
    /\ history.items[HISTORY_CAP].timestamp >= 0

\* C21 (SpecRate): every write of rates.json, by an update or by the update
\* a stale query starts, leaves only pairs with a rate above 0 in it: a zero
\* or negative quote of a client is never persisted.
C21_PersistedRatesPositive ==
    [][ rates' # rates =>
          \A k \in DOMAIN rates'.pairs : rates'.pairs[k].rate[1] > 0 ]_vars

\* C22 as stated (SpecCache): while a client's cached data is younger than
\* its cache_duration a cached fetch returns it without calling the
\* upstream source and leaves the cache as it is; once the cached data is
\* cache_duration old or older the fetch calls the upstream source and, when
\* that call succeeds, the cache holds the returned data stamped with the
\* time of the call.
C22_CacheServedUntilTTL ==
    [][ (last'.op = "fetch_cached" /\ now' = now) =>
          LET c   == last'.client
              cf  == cache[c]
              age == now - cf.timestamp
          IN  /\ (cf.exists /\ age < CacheDuration(c)) =>
                    /\ last'.upstream = "none"
                    /\ last'.ok /\ last'.rates = cf.data
                    /\ cache'[c] = cf
              /\ (cf.exists /\ age >= CacheDuration(c)) =>
                    /\ last'.upstream # "none"
                    /\ last'.upstream = "ok" =>
                          cache'[c] = CacheFile(now, last'.rates) ]_vars

\* C22 amended (SpecCache): as above, except that the cache is replaced only
\* by a successful upstream call that returns at least one rate; a
\* successful call that returns no rate is answered with the empty result
\* and leaves the cache and its timestamp as they were.
C22_CacheServedUntilTTL_NonEmpty ==
    [][ (last'.op = "fetch_cached" /\ now' = now) =>
          LET c   == last'.client
              cf  == cache[c]
              age == now - cf.timestamp
          IN  /\ (cf.exists /\ age < CacheDuration(c)) =>
                    /\ last'.upstream = "none"
                    /\ last'.ok /\ last'.rates = cf.data
                    /\ cache'[c] = cf
              /\ (cf.exists /\ age >= CacheDuration(c)) =>
                    /\ last'.upstream # "none"
                    /\ (last'.upstream = "ok" /\ last'.rates # EmptyMap) =>
                          cache'[c] = CacheFile(now, last'.rates)
                    /\ (last'.upstream = "ok" /\ last'.rates = EmptyMap) =>
                          cache'[c] = cf /\ last'.ok ]_vars

\* C22 witness: a fetch one second before the end of the cache_duration was
\* answered from the cache without an upstream call.
C22_Witness ==
    /\ last.op = "fetch_cached" /\ last.upstream = "none"
    /\ cache[last.client].exists
    /\ now - cache[last.client].timestamp = CacheDuration(last.client) - 1
    /\ last.rates = cache[last.client].data

\* C23 (SpecCache): a cached fetch whose upstream call fails (the cache
\* being missing or expired) leaves the cache file as it is; when the file
\* holds cached data, however old, the fetch succeeds and returns that data,
\* and when nothing is cached it fails.
C23_FallbackToCache ==
    [][ (last'.op = "fetch_cached" /\ now' = now /\ last'.upstream = "fail") =>
          LET c  == last'.client
              cf == cache[c]
          IN  /\ cf.exists => now - cf.timestamp >= CacheDuration(c)
              /\ cache'[c] = cf
              /\ cf.exists => (last'.ok /\ last'.rates = cf.data)
              /\ ~cf.exists => ~last'.ok ]_vars

\* C23 witness: the upstream call failed and the fetch returned cached data
\* at least twice as old as the cache_duration.
C23_Witness ==
    /\ last.op = "fetch_cached" /\ last.upstream = "fail" /\ last.ok
    /\ cache[last.client].exists
    /\ now - cache[last.client].timestamp >= 2 * CacheDuration(last.client)
    /\ last.rates = cache[last.client].data

\* s is one of the entries of the sequence seq.
InSeq(s, seq) == \E i \in 1..Len(seq) : seq[i] = s

\* C24 (SpecCache): in an update of all sources, a client whose upstream
\* call fails while its cache file holds data contributes that data: every
\* cached pair of the client is in the snapshot the update leaves, at its
\* cached rate.
C24_UpdateDegradesToCache ==
    [][ (last'.op = "update_rates" /\ now' = now) =>
          \A c \in CacheClients :
              (~InSeq(c, last'.sources) /\ cache[c].exists) =>
                  /\ last'.ok
                  /\ \A k \in DOMAIN cache[c].data :
                        /\ k \in DOMAIN rates'.pairs
                        /\ rates'.pairs[k].rate = cache[c].data[k] ]_vars

\* What the clients give in a refresh that fails: no rate from either.
FailingRefreshes ==
    { <<crypto, fiat>> \in CryptoOutcomes \X FiatOutcomes :
        MergedRates("all", crypto, fiat) = EmptyMap }

\* C25 (SpecRate): staleness is not an error on read.  In every state whose
\* snapshot is older than the TTL, a query of two different known
\* currencies whose refresh fails leaves rates.json as it is and gives
\* exactly the answer (success or not, and the rate) that the same query
\* gives on the same snapshot when it is fresh; in particular it succeeds
\* with the stored rate when the stale snapshot holds the direct pair at a
\* rate other than 0.
C25_StaleReadSucceeds ==
    IsStale(rates, now) =>
        \A x \in SupportedCodes, y \in SupportedCodes, o \in FailingRefreshes :
            x # y =>
                LET r     == get_exchange_rate(x, y, o[1], o[2], rates, history, now)
                    fresh == get_exchange_rate(x, y, o[1], o[2],
                                 [rates EXCEPT !.last_refresh = now], history, now)
                IN  /\ r.rates = rates
                    /\ r.ok = fresh.ok /\ r.err = fresh.err /\ r.rate = fresh.rate
                    /\ Usable(PairKey(x, y), rates.pairs) =>
                          r.ok /\ r.rate = rates.pairs[PairKey(x, y)].rate

\* C25 witness: a query of two different currencies has succeeded on a
\* snapshot that is still older than the TTL, so its refresh failed.
C25_Witness ==
    /\ last.op = "get_rate" /\ last.ok /\ last.from # last.to
    /\ IsStale(rates, now)
    /\ ~IsZero(last.rate)

\* C26: get_total_value(base) is best effort.  A wallet whose currency has
\* no rate into base that the rate resolver can find is skipped and adds
\* nothing, the valuation still returns, and every other wallet adds its
\* balance times that rate (its balance when it is held in base).
ResolverValue(c, balance, base_currency, rf) ==
    LET res == ResolveRate(c, base_currency, rf)
    IN  IF c = base_currency THEN FracOfInt(balance)
        ELSE IF res.err = "ok" THEN FracMul(FracOfInt(balance), res.rate)
        ELSE Zero
C26_BestEffortValuation ==
    last.op = "get_total_value" =>
        LET wallets == portfolios.items[FindPortfolio(portfolios.items, session)].wallets
            value   == [c \in DOMAIN wallets |->
                          ResolverValue(c, wallets[c], last.base, rates)]
        IN  /\ last.total = Round2(FracSum(value, DOMAIN wallets))
            /\ last.skipped = {c \in DOMAIN wallets : IsZero(value[c])}

\* C27: show_portfolio(user, base) returns a successful result with the
\* value of every wallet and their total in base for every portfolio; a
\* wallet whose currency has no rate into base is left out, and the other
\* wallets are still listed and summed.
ListedValue(c, balance, base_currency, rf) ==
    LET conv == convert_rates(c, base_currency, rf)
    IN  IF c = base_currency THEN FracOfInt(balance)
        ELSE IF conv.err = "ok" THEN FracMul(FracOfInt(balance), conv.rate)
        ELSE Zero
C27_ShowPortfolioSkips ==
    last.op = "show_portfolio" =>
        LET wallets == portfolios.items[FindPortfolio(portfolios.items, session)].wallets
            value   == [c \in DOMAIN wallets |->
                          ListedValue(c, wallets[c], last.base, rates)]
            listed  == {c \in DOMAIN wallets : ~IsZero(value[c])}
        IN  /\ last.kind = "dict" /\ last.success
            /\ last.lines = [c \in listed |-> value[c]]
            /\ last.total = FracSum(value, listed)

\* C28: with users.json and portfolios.json initialized, after any sequence
\* of register calls the stored user_ids are pairwise distinct, the stored
\* usernames are pairwise distinct and non-empty, every stored user has
\* exactly one portfolio with its user_id, and a register call with a
\* username already in use changes nothing.
PortfoliosOf(user_id) ==
    {j \in 1..Len(portfolios.items) : portfolios.items[j].user_id = user_id}
UsersWellFormed ==
    /\ \A i, j \in 1..Len(users.items) :
          (users.items[i].user_id = users.items[j].user_id
             \/ users.items[i].username = users.items[j].username) => i = j
    /\ \A i \in 1..Len(users.items) :
          /\ users.items[i].username # ""
          /\ Cardinality(PortfoliosOf(users.items[i].user_id)) = 1
DuplicateChangesNothing ==
    (last'.op = "register" /\ last'.err = "UsernameTaken")
        => UNCHANGED <<users, portfolios, rates, history, session>>
C28_RegisterKeepsUsersUnique ==
    [](UsersWellFormed) /\ [][DuplicateChangesNothing]_vars
C28_Witness ==
    /\ last.op = "register" /\ last.err = "UsernameTaken"
    /\ Len(users.items) = 2 /\ Len(portfolios.items) = 2

\* C29: every wallet key stored in a portfolio is a normalized (uppercase)
\* supported currency code, so that trades under different spellings of a
\* code ("eur", "EUR") act on one and the same wallet.
C29_WalletKeysNormalized ==
    \A j \in 1..Len(portfolios.items) :
        \A c \in DOMAIN portfolios.items[j].wallets :
            c = Upper(c) /\ c \in SupportedCodes

\* C30: end to end, with EUR_USD = 1.08 stored and the user registered and
\* logged in: buying 10 EUR gives a EUR balance of 10 at a cost of 10.80 USD;
\* selling 5 EUR then gives a balance of 5 for 5.40 USD; selling 6 EUR then
\* fails with insufficient funds (available 5, required 6) and the balance
\* stays 5.
SessionWallets ==
    portfolios.items[FindPortfolio(portfolios.items, session)].wallets
HoldsEUR(n) ==
    /\ session # NoSession
    /\ FindPortfolio(portfolios.items, session) # 0
    /\ IF n = 0 THEN "EUR" \notin DOMAIN SessionWallets
       ELSE "EUR" \in DOMAIN SessionWallets /\ SessionWallets["EUR"] = n
StoredEUR(pf) ==
    pf.items[FindPortfolio(pf.items, session)].wallets["EUR"]
C30_EndToEnd ==
    /\ HoldsEUR(0) =>
          LET r == buy_currency(session, "EUR", Num(10), portfolios, rates)
          IN  /\ r.ok /\ r.old_balance = 0 /\ r.new_balance = 10
              /\ r.cost_usd = Frac(1080, 100)
              /\ StoredEUR(r.portfolios) = 10
    /\ HoldsEUR(10) =>
          LET r == sell_currency(session, "EUR", Num(5), portfolios, rates)
          IN  /\ r.ok /\ r.old_balance = 10 /\ r.new_balance = 5
              /\ r.cost_usd = Frac(540, 100)
              /\ StoredEUR(r.portfolios) = 5
    /\ HoldsEUR(5) =>
          LET r == sell_currency(session, "EUR", Num(6), portfolios, rates)
          IN  /\ ~r.ok /\ r.err = "InsufficientFundsError"
              /\ r.available = 5 /\ r.required = 6
              /\ r.portfolios = portfolios
C30_Witness ==
    /\ HoldsEUR(5)
    /\ last.op = "sell" /\ ~last.ok /\ last.err = "InsufficientFundsError"
    /\ last.currency = "EUR" /\ last.available = 5 /\ last.required = 6

\* C31: a successful trade rewrites the trader's portfolio in one save, and
\* its result reports the balance of the traded wallet before the trade, its
\* balance after the trade and a cost equal to amount times the rate used;
\* the balance reported after the trade is the one portfolios.json holds.
C31_TradeReportMatchesStore ==
    [][ (last'.op \in {"buy", "sell"} /\ last'.ok) =>
          LET c   == last'.currency
              old == WalletsOf(portfolios, last'.user)
              new == WalletsOf(portfolios', last'.user)
          IN  /\ OthersUnchanged(portfolios, portfolios', last'.user)
              /\ users' = users /\ history' = history
              /\ last'.old_balance = (IF c \in DOMAIN old THEN old[c] ELSE 0)
              /\ c \in DOMAIN new /\ last'.new_balance = new[c]
              /\ last'.rate = TradeRate(get_currency(c), SellRatesTable(rates)).rate
              /\ last'.cost_usd[1] * last'.rate[2]
                    = last'.amount.v * last'.rate[1] * last'.cost_usd[2] ]_vars
C31_Witness ==
    /\ last.op = "sell" /\ last.ok
    /\ last.old_balance = 2 /\ last.new_balance = 1
    /\ last.cost_usd = Frac(108, 100)
    /\ WalletsOf(portfolios, last.user)[last.currency] = 1
    /\ Len(portfolios.items) = 2

\* C32: run_update appends a history record only for the pairs whose rate
\* changed against the snapshot stored before the run; a pair fetched again
\* with the rate already stored adds no record.
C32_HistoryOnlyChangedPairs ==
    [][ (last'.op = "update_rates" /\ last'.ok /\ now' = now) =>
          \A i \in (Len(history.items) + 1)..Len(history'.items) :
              LET rec == history'.items[i]
                  k   == PairKey(rec.from_currency, rec.to_currency)
              IN  ~(/\ rates.exists
                    /\ k \in DOMAIN rates.pairs
                    /\ rates.pairs[k].rate = rec.rate) ]_vars

\* C33: freshness is the strict test now - updated_at < ttl wherever it is
\* evaluated: at an age exactly equal to the maximum age is_rate_fresh is
\* false, and the rate query attempts a refresh of the snapshot.
C33_FreshnessStrictEverywhere ==
    (rates.exists /\ now - rates.last_refresh = RATES_TTL_SECONDS) =>
        /\ ~is_rate_fresh(rates.last_refresh, RATES_TTL_SECONDS \div 60, now)
        /\ LET r == get_exchange_rate("EUR", "USD",
                        FetchOk(PairKey("BTC", "USD") :> Frac(4, 1)),
                        FetchOk(PairKey("EUR", "USD") :> Frac(2, 1)),
                        rates, history, now)
           IN  r.rates.last_refresh = now

\* C34: get_total_value(base) values a wallet with the rate of the rate
\* resolver, the bridged one included: a wallet in A valued in B with only
\* A_USD and B_USD stored contributes balance * rate(A_USD) / rate(B_USD).
OnlyBridged(c, base_currency, rf) ==
    /\ rf.exists /\ rf.fmt = "pairs"
    /\ c # base_currency
    /\ PairKey(c, base_currency) \notin DOMAIN rf.pairs
    /\ PairKey(base_currency, c) \notin DOMAIN rf.pairs
    /\ PairKey(c, "USD") \in DOMAIN rf.pairs
    /\ PairKey(base_currency, "USD") \in DOMAIN rf.pairs
    /\ ~IsZero(rf.pairs[PairKey(c, "USD")].rate)
    /\ ~IsZero(rf.pairs[PairKey(base_currency, "USD")].rate)
C34_ValuationBridges ==
    last.op = "get_total_value" =>
        LET wallets == portfolios.items[FindPortfolio(portfolios.items, session)].wallets
        IN  \A c \in DOMAIN wallets :
                OnlyBridged(c, last.base, rates) =>
                    /\ c \notin last.skipped
                    /\ DOMAIN wallets = {c} =>
                          last.total =
                             Round2(FracMul(FracOfInt(wallets[c]),
                                 FracDiv(rates.pairs[PairKey(c, "USD")].rate,
                                         rates.pairs[PairKey(last.base, "USD")].rate)))

\* C35: after a successful run_update the stored snapshot is replaced as a
\* whole: its pairs are exactly the keys of the map merged in this run, so a
\* pair of the previous snapshot that this run did not fetch is gone.
C35_SnapshotReplacedWholesale ==
    \A source \in SourceInputs, crypto \in CryptoOutcomes, fiat \in FiatOutcomes :
        LET r      == run_update(source, crypto, fiat, rates, history, now)
            merged == MergedRates(source, crypto, fiat)
            before == IF rates.exists THEN DOMAIN rates.pairs ELSE {}
        IN  r.ok =>
              /\ r.rates.exists
              /\ DOMAIN r.rates.pairs = DOMAIN merged
              /\ \A k \in DOMAIN merged :
                    /\ r.rates.pairs[k].rate = merged[k]
                    /\ r.rates.pairs[k].updated_at = now
              /\ \A k \in before \ DOMAIN merged : k \notin DOMAIN r.rates.pairs
\* C35 witness: an update has stored the fiat pair alone although an earlier
\* update, recorded in the history, had stored BTC_USD.
C35_Witness ==
    /\ last.op = "update_rates" /\ last.ok
    /\ last.sources = <<"ExchangeRate-API">>
    /\ DOMAIN rates.pairs = {PairKey("EUR", "USD")}
    /\ \E i \in 1..Len(history.items) : history.items[i].from_currency = "BTC"

\* C36: in every snapshot written by run_update the source of a pair names
\* the client that supplied its rate in that run: the fiat pair EUR_USD is
\* never labelled CoinGecko, the crypto pair BTC_USD never ExchangeRate-API.
C36_PairSourceIsItsClient ==
    rates.exists =>
        /\ PairKey("EUR", "USD") \in DOMAIN rates.pairs
              => rates.pairs[PairKey("EUR", "USD")].source # "CoinGecko"
        /\ PairKey("BTC", "USD") \in DOMAIN rates.pairs
              => rates.pairs[PairKey("BTC", "USD")].source # "ExchangeRate-API"

\* C37: only the rate updater writes rates.json: register, buy and sell
\* leave the file as it was in every state, also when it is missing.
C37_OnlyUpdaterWritesRates ==
    [][ last'.op \in {"register", "buy", "sell"} => rates' = rates ]_vars

\* C38: through any sequence of successful and failed buys and sells the
\* stored balance of each wallet is the sum of the amounts of its owner's
\* successful buys under that wallet's currency less the sum of the amounts
\* of the successful sells, and is never negative.  Stated step by step: a
\* wallet that does not exist counts as 0, a successful buy adds its amount
\* to the traded wallet of the trader, a successful sell takes its amount
\* from it, and nothing else changes any balance.
TradeEffect(l, user_id, c) ==
    IF l.op \in {"buy", "sell"} /\ l.ok /\ l.user = user_id /\ l.currency = c
    THEN (IF l.op = "buy" THEN l.amount.v ELSE 0 - l.amount.v)
    ELSE 0
BalancesNonNegative ==
    \A j \in 1..Len(portfolios.items) :
        \A c \in DOMAIN portfolios.items[j].wallets :
            portfolios.items[j].wallets[c] >= 0
C38_BalanceIsSumOfTrades ==
    /\ [](BalancesNonNegative)
    /\ [][ \/ (portfolios' = portfolios
                 /\ ~(last'.op \in {"buy", "sell"} /\ last'.ok))
            \/ \A user_id \in 1..Cardinality(UserNames) :
              LET old == WalletsOf(portfolios, user_id)
                  new == WalletsOf(portfolios', user_id)
              IN  \A c \in CurrencyInputs :
                      (IF c \in DOMAIN new THEN new[c] ELSE 0)
                         = (IF c \in DOMAIN old THEN old[c] ELSE 0)
                             + TradeEffect(last', user_id, c) ]_vars
\* C38 witness: the second user's balance has gone from 1 to 2 by a second
\* successful buy.
C38_Witness ==
    /\ last.op = "buy" /\ last.ok /\ last.user = 2
    /\ last.old_balance = 1 /\ last.new_balance = 2 /\ last.amount.v = 1
    /\ BalanceOf(portfolios, 2, last.currency) = 2
\* C39: a buy by a logged-in user who has no portfolio record either
\* completes (the wallet with the bought amount is stored) or fails leaving
\* portfolios.json as it was; it never fails after having written a new
\* empty portfolio.
C39_BuyWithoutPortfolioIsAllOrNothing ==
    [][ (/\ last'.op = "buy"
         /\ session # NoSession
         /\ FindPortfolio(LoadList(portfolios).items, session) = 0) =>
            \/ /\ last'.ok
               /\ BalanceOf(portfolios', session, last'.currency) = last'.amount.v
            \/ /\ ~last'.ok
               /\ portfolios' = portfolios ]_vars

\* C40: after RateScheduler.stop() has returned the background loop starts
\* no further update; a stop issued while the loop sleeps prevents the
\* update that would follow the sleep.
C40_NoUpdateAfterStop ==
    [][ procs.stopped => procs'.started = procs.started ]_vars

=============================================================================
